---- MODULE Spec2Model ----
(***************************************************************************)
(* A model of the hounddog scanner core: the generic syntax-tree walk of   *)
(* BaseScanner::scan_file, the Python and TypeScript visitors, the         *)
(* per-file FileScanContext (scope stack, caches, alias tables), the       *)
(* findings store and the run_scan driver.                                 *)
(*                                                                         *)
(* Texts are sequences of tokens (an identifier, ".", "(" ...), so that    *)
(* name.replace(".", "_"), format!("{}.{}", ..) and literal patterns are   *)
(* computed, not assumed.                                                  *)
(***************************************************************************)
EXTENDS Integers, Sequences, FiniteSets, TLC

VARIABLES
    pc,                    \* position of the driver / of scan_file
    tree,                  \* the syntax tree under the cursor (sequence of nodes)
    cursor,                \* TreeCursor position (a node index)
    visited_all_children,  \* the flag of scan_file's loop
    trace,                 \* history: the visit / leave calls of the current walk
    verdict,               \* history: what visit_node returned for each visited node
    database,              \* ScanDatabase: the two tables of the findings store
    arg,                   \* the argument of the function applied (function specifications)
    ret,                   \* its result
    config,                \* ScanConfig of the run
    files,                 \* get_files_in_dir: the files of the repository, in walk order
    file_index,            \* position of run_scan's loop in files
    context,               \* FileScanContext of the file being scanned (kept after it returns)
    results,               \* ScanResults returned by run_scan
    handed,                \* history: the findings given to put_occurrence / put_vulnerability
    outcomes               \* history: the Result of each file, in order

walkVars == <<tree, cursor, visited_all_children, trace, verdict>>
fnVars == <<arg, ret>>
scanVars == <<config, files, file_index, context, results, handed, outcomes>>
vars == <<pc, walkVars, database, fnVars, scanVars>>

None == [none |-> TRUE]

IdleWalk ==
    /\ tree = <<>>
    /\ cursor = 0
    /\ visited_all_children = FALSE
    /\ trace = <<>>
    /\ verdict = <<>>

IdleFn == arg = None /\ ret = None

IdleStore == database = None

IdleScan ==
    /\ config = None
    /\ files = <<>>
    /\ file_index = 0
    /\ context = None
    /\ results = None
    /\ handed = <<>>
    /\ outcomes = <<>>

(***************************************************************************)
(* Bounds of the model.                                                    *)
(***************************************************************************)
MaxNodes == 5
MaxStrLen == 1    \* chunks in a string of a string-sequence field (SpecStore)
MaxVecLen == 2    \* strings in a string-sequence field (SpecStore)
MaxElems == 4     \* participating elements handed to Vulnerability::from_node
MaxSourceLen == 6 \* bytes of a source text handed to get_code_block (SpecCodeBlock)
MaxPathLen == 4   \* chunks in the path of a remote URL (SpecGitUrl)

(***************************************************************************)
(* Syntax trees.  A tree is a sequence of nodes; node 1 is the root; the   *)
(* children of a node are ordered by index (source order).                 *)
(***************************************************************************)
Nodes(t) == 1..Len(t)

ChildrenOf(t, n) == {c \in Nodes(t) : t[c].parent = n}

MinOf(S) == CHOOSE x \in S : \A y \in S : x <= y

\* TreeCursor::goto_first_child: 0 stands for "returned false".
goto_first_child(t, n) ==
    IF ChildrenOf(t, n) = {} THEN 0 ELSE MinOf(ChildrenOf(t, n))

\* TreeCursor::goto_next_sibling: 0 stands for "returned false".
goto_next_sibling(t, n) ==
    LET later == {c \in ChildrenOf(t, t[n].parent) : c > n}
    IN  IF t[n].parent = 0 \/ later = {} THEN 0 ELSE MinOf(later)

\* TreeCursor::goto_parent: 0 stands for "returned false" (at the root).
goto_parent(t, n) == t[n].parent

RECURSIVE IsAncestor(_, _, _)
\* a is a proper ancestor of n
IsAncestor(t, a, n) ==
    IF t[n].parent = 0 THEN FALSE
    ELSE t[n].parent = a \/ IsAncestor(t, a, t[n].parent)

Ancestors(t, n) == {a \in Nodes(t) : IsAncestor(t, a, n)}
Descendants(t, n) == {d \in Nodes(t) : IsAncestor(t, n, d)}

\* All ordered trees with exactly k nodes (shape only).
ShapesOf(k) ==
    {t \in [1..k -> [parent : 0..(k - 1)]] :
        /\ t[1].parent = 0
        /\ \A i \in 2..k : t[i].parent \in 1..(i - 1)}

Shapes == UNION {ShapesOf(k) : k \in 1..MaxNodes}

(***************************************************************************)
(* BaseScanner::scan_file, the loop.  One iteration of the loop is one     *)
(* step.  The three operators below give the cursor state after each of    *)
(* the three branches of the loop body.                                    *)
(***************************************************************************)
\* branch 1 (lines 57-61): visit_node returned v; descend unless pruned
LoopAfterVisitDescendsAlways(t, n, v) ==
    IF goto_first_child(t, n) = 0
    THEN [cursor |-> n, visited_all_children |-> TRUE]
    ELSE [cursor |-> goto_first_child(t, n), visited_all_children |-> FALSE]

LoopAfterVisit(t, n, v) ==
    IF v = "No" \/ goto_first_child(t, n) = 0
    THEN [cursor |-> n, visited_all_children |-> TRUE]
    ELSE [cursor |-> goto_first_child(t, n), visited_all_children |-> FALSE]

\* branches 2 and 3 (lines 62-70): which nodes leave_node is called on
LoopLeavesNoLeaf(t, n) == IF ChildrenOf(t, n) = {} THEN <<>> ELSE <<n>>

LoopLeaves(t, n) == <<n>>

\* branches 2 and 3 with the parent taken up as a node still to be visited
LoopAfterLeaveRevisitingParent(t, n) ==
    IF goto_next_sibling(t, n) # 0
    THEN [cursor |-> goto_next_sibling(t, n), visited_all_children |-> FALSE,
          returned |-> FALSE]
    ELSE IF goto_parent(t, n) = 0
         THEN [cursor |-> n, visited_all_children |-> TRUE, returned |-> TRUE]
         ELSE [cursor |-> goto_parent(t, n), visited_all_children |-> FALSE,
               returned |-> FALSE]

\* branches 2 and 3: the cursor afterwards; "returned" is return Ok(())
LoopAfterLeave(t, n) ==
    IF goto_next_sibling(t, n) # 0
    THEN [cursor |-> goto_next_sibling(t, n), visited_all_children |-> FALSE,
          returned |-> FALSE]
    ELSE IF goto_parent(t, n) = 0
         THEN [cursor |-> n, visited_all_children |-> TRUE, returned |-> TRUE]
         ELSE [cursor |-> goto_parent(t, n), visited_all_children |-> TRUE,
               returned |-> FALSE]

Event(kind, n) == [ev |-> kind, node |-> n]

LeaveEvents(ns) == [i \in 1..Len(ns) |-> Event("leave", ns[i])]

(***************************************************************************)
(* The walk under an arbitrary visitor: visit_node may answer Yes or No    *)
(* on any node (specification SpecWalk).                                   *)
(***************************************************************************)
VisitChildren == {"Yes", "No"}

InitWalk ==
    /\ pc = "walk"
    /\ tree \in Shapes
    /\ cursor = 1
    /\ visited_all_children = FALSE
    /\ trace = <<>>
    /\ verdict = <<>>
    /\ IdleFn
    /\ IdleStore
    /\ IdleScan

WalkVisit ==
    /\ pc = "walk"
    /\ ~visited_all_children
    /\ \E v \in VisitChildren :
          LET nxt == LoopAfterVisit(tree, cursor, v)
          IN  /\ trace' = Append(trace, Event("visit", cursor))
              /\ verdict' = Append(verdict, [node |-> cursor, v |-> v])
              /\ cursor' = nxt.cursor
              /\ visited_all_children' = nxt.visited_all_children
    /\ UNCHANGED <<scanVars, pc, tree, database, fnVars>>

WalkLeave ==
    /\ pc = "walk"
    /\ visited_all_children
    /\ LET nxt == LoopAfterLeave(tree, cursor)
       IN  /\ trace' = trace \o LeaveEvents(LoopLeaves(tree, cursor))
           /\ cursor' = nxt.cursor
           /\ visited_all_children' = nxt.visited_all_children
           /\ pc' = IF nxt.returned THEN "returned" ELSE "walk"
    /\ UNCHANGED <<scanVars, tree, verdict, database, fnVars>>

NextWalk == WalkVisit \/ WalkLeave

SpecWalk == InitWalk /\ [][NextWalk]_vars

(***************************************************************************)
(* Reading the history.                                                    *)
(***************************************************************************)
Positions(kind, n) ==
    {i \in 1..Len(trace) : trace[i].ev = kind /\ trace[i].node = n}

Visited == {trace[i].node : i \in {j \in 1..Len(trace) : trace[j].ev = "visit"}}
Left == {trace[i].node : i \in {j \in 1..Len(trace) : trace[j].ev = "leave"}}

PosOf(kind, n) == CHOOSE i \in Positions(kind, n) : TRUE

VerdictOf(n) ==
    LET hit == {i \in 1..Len(verdict) : verdict[i].node = n}
    IN  IF hit = {} THEN "none" ELSE verdict[CHOOSE i \in hit : TRUE].v

RECURSIVE SelectVisits(_)
SelectVisits(tr) ==
    IF tr = <<>> THEN <<>>
    ELSE IF Head(tr).ev = "visit"
         THEN <<Head(tr).node>> \o SelectVisits(Tail(tr))
         ELSE SelectVisits(Tail(tr))

RECURSIVE PreOrder(_, _)
RECURSIVE PreOrderAll(_, _, _)
\* the pre-order listing of the subtree of n, cut below the nodes answered No
PreOrder(t, n) ==
    <<n>> \o (IF VerdictOf(n) = "No" THEN <<>> ELSE PreOrderAll(t, n, 0))

\* the pre-order listings of the children of n that come after child c
PreOrderAll(t, n, c) ==
    LET rest == {d \in ChildrenOf(t, n) : d > c}
    IN  IF rest = {} THEN <<>>
        ELSE PreOrder(t, MinOf(rest)) \o PreOrderAll(t, n, MinOf(rest))

\* C1: the walk calls visit exactly once on every node none of whose proper
\* ancestors answered No, and on no other node; parents come before children
\* and siblings in source order, i.e. the visits are the pre-order listing
\* of the unpruned part of the tree.
C1_VisitPreOrder ==
    /\ \A n \in Nodes(tree) : Cardinality(Positions("visit", n)) <= 1
    /\ \A n \in Visited : \A a \in Ancestors(tree, n) :
          /\ a \in Visited
          /\ VerdictOf(a) = "Yes"
          /\ PosOf("visit", a) < PosOf("visit", n)
    /\ pc = "returned" =>
          /\ SelectVisits(trace) = PreOrder(tree, 1)
          /\ Visited = {n \in Nodes(tree) :
                          \A a \in Ancestors(tree, n) : VerdictOf(a) # "No"}

\* witness of C1: a finished walk in which a node with children answered No
\* and one of its later siblings was still visited
C1_Witness ==
    /\ pc = "returned"
    /\ \E n \in Visited :
          /\ VerdictOf(n) = "No"
          /\ ChildrenOf(tree, n) # {}
          /\ \E s \in Visited : s > n /\ tree[s].parent = tree[n].parent

\* C2: leave is called exactly once for every visited node (pruned nodes and
\* leaves included), never for an unvisited node, and only after every
\* visited descendant of the node has been visited and left.
C2_LeaveOncePostOrder ==
    /\ \A n \in Nodes(tree) : Cardinality(Positions("leave", n)) <= 1
    /\ \A n \in Left :
          /\ n \in Visited
          /\ PosOf("visit", n) < PosOf("leave", n)
          /\ \A d \in Descendants(tree, n) \cap Visited :
                /\ d \in Left
                /\ PosOf("visit", d) < PosOf("leave", n)
                /\ PosOf("leave", d) < PosOf("leave", n)
    /\ pc = "returned" => Left = Visited

\* witness of C2: a finished walk that left a pruned inner node, a leaf and
\* a node with visited children
C2_Witness ==
    /\ pc = "returned"
    /\ \E n \in Left : VerdictOf(n) = "No" /\ ChildrenOf(tree, n) # {}
    /\ \E n \in Left : ChildrenOf(tree, n) = {} /\ VerdictOf(n) = "Yes"
    /\ \E n \in Left : Descendants(tree, n) \cap Visited # {} /\ n # 1

(***************************************************************************)
(* Enums.  A value carries its type and its variant, so that a conversion  *)
(* between two enums with the same labels is not the identity.             *)
(***************************************************************************)
Enum(ty, v) == [enum |-> ty, variant |-> v]

SensitivityVariants == <<"Critical", "Medium", "Low">>
SeverityVariants == <<"Critical", "Medium", "Low">>

Sensitivity == {Enum("Sensitivity", SensitivityVariants[i]) : i \in 1..3}
Severity == {Enum("Severity", SeverityVariants[i]) : i \in 1..3}

\* #[derive(PartialOrd, Ord)]: variants compare by their declaration order
DiscriminantReversed(variants, e) ==
    Len(variants) - (CHOOSE i \in 1..Len(variants) : variants[i] = e.variant)

Discriminant(variants, e) ==
    CHOOSE i \in 1..Len(variants) : variants[i] = e.variant

SensitivityCmpLe(a, b) ==
    Discriminant(SensitivityVariants, a) <= Discriminant(SensitivityVariants, b)

SeverityCmpLe(a, b) ==
    Discriminant(SeverityVariants, a) <= Discriminant(SeverityVariants, b)

(***************************************************************************)
(* Vulnerability::from_node, the severity (structs.rs 297-306).            *)
(***************************************************************************)
RECURSIVE IterMax(_)
IterMax(s) ==
    IF Len(s) = 1 THEN s[1]
    ELSE LET m == IterMax(Tail(s))
         IN  IF SensitivityCmpLe(m, Head(s)) THEN Head(s) ELSE m

RECURSIVE IterMin(_)
\* Iterator::min over a non-empty sequence of sensitivities
IterMin(s) ==
    IF Len(s) = 1 THEN s[1]
    ELSE LET m == IterMin(Tail(s))
         IN  IF SensitivityCmpLe(Head(s), m) THEN Head(s) ELSE m

\* the match of lines 301-305
SensitivityToSeverity(s) ==
    CASE s = Enum("Sensitivity", "Critical") -> Enum("Severity", "Critical")
      [] s = Enum("Sensitivity", "Medium") -> Enum("Severity", "Medium")
      [] s = Enum("Sensitivity", "Low") -> Enum("Severity", "Low")

from_node_severity_max(data_elements) ==
    SensitivityToSeverity(
        IterMax([i \in 1..Len(data_elements) |-> data_elements[i].sensitivity]))

\* data_elements.iter().map(|elem| &elem.sensitivity).min().map(..).unwrap()
from_node_severity(data_elements) ==
    SensitivityToSeverity(
        IterMin([i \in 1..Len(data_elements) |-> data_elements[i].sensitivity]))

(***************************************************************************)
(* Specification SpecSeverity: from_node's severity applied to every       *)
(* non-empty list of up to MaxElems participating elements (the visitors   *)
(* call from_node only when the list is not empty).                        *)
(***************************************************************************)
ElementStubs ==
    {[id |-> "ssn", sensitivity |-> Enum("Sensitivity", "Critical")],
     [id |-> "email", sensitivity |-> Enum("Sensitivity", "Medium")],
     [id |-> "nickname", sensitivity |-> Enum("Sensitivity", "Low")]}

InitSeverity ==
    /\ pc = "call"
    /\ arg \in UNION {[1..k -> ElementStubs] : k \in 1..MaxElems}
    /\ ret = None
    /\ IdleWalk
    /\ IdleStore
    /\ IdleScan

ApplySeverity ==
    /\ pc = "call"
    /\ ret' = from_node_severity(arg)
    /\ pc' = "done"
    /\ UNCHANGED <<scanVars, walkVars, database, arg>>

NextSeverity == ApplySeverity

SpecSeverity == InitSeverity /\ [][NextSeverity]_vars

\* the ordering the claims name: Critical < Medium < Low
ClaimRank(label) ==
    CASE label = "Critical" -> 0 [] label = "Medium" -> 1 [] label = "Low" -> 2

ArgLabels == {arg[i].sensitivity.variant : i \in 1..Len(arg)}

\* C5: the severity of a vulnerability built by from_node has the label of
\* the minimum sensitivity among its participating elements under
\* Critical < Medium < Low.
C5_SeverityIsMinSensitivity ==
    pc = "done" =>
        /\ ret \in Severity
        /\ ret.variant \in ArgLabels
        /\ \A l \in ArgLabels : ClaimRank(ret.variant) <= ClaimRank(l)

\* witness of C5: a built vulnerability whose elements have three different
\* sensitivities, the minimum not being the first
C5_Witness ==
    /\ pc = "done"
    /\ Cardinality(ArgLabels) = 3
    /\ arg[1].sensitivity.variant # "Critical"

OneCriticalOneLow ==
    /\ Len(arg) = 2
    /\ ArgLabels = {"Critical", "Low"}

\* C6 as claimed: the severity is that of the least-sensitive participating
\* element; one Critical and one Low element give severity Low.
C6_LeastSensitiveWins ==
    (pc = "done" /\ OneCriticalOneLow) => ret = Enum("Severity", "Low")

\* C6 as amended: the severity is that of the most-sensitive participating
\* element; one Critical and one Low element give severity Critical.
C6_MostSensitiveWins ==
    (pc = "done" /\ OneCriticalOneLow) => ret = Enum("Severity", "Critical")

\* witness of C6: from_node has been applied to one Critical and one Low
\* element, the Low one first
C6_Witness ==
    /\ pc = "done"
    /\ OneCriticalOneLow
    /\ arg[1].sensitivity.variant = "Low"

(***************************************************************************)
(* Strings that pass through a conversion are sequences of chunks: a chunk *)
(* is the comma "," or a non-empty piece of text without a comma, so that  *)
(* join(",") and split(',') are computed exactly.  The empty string is     *)
(* <<>>.                                                                   *)
(***************************************************************************)
RECURSIVE Join(_, _)
\* [String]::join(sep)
Join(v, sep) ==
    IF v = <<>> THEN <<>>
    ELSE IF Len(v) = 1 THEN v[1]
    ELSE v[1] \o <<sep>> \o Join(Tail(v), sep)

RECURSIVE Split(_, _)
\* str::split(sep): "" gives [""], "a,b" gives ["a", "b"], "a," gives ["a", ""]
Split(str, sep) ==
    LET at == {i \in 1..Len(str) : str[i] = sep}
    IN  IF at = {} THEN <<str>>
        ELSE LET i == MinOf(at)
             IN  <<SubSeq(str, 1, i - 1)>> \o Split(SubSeq(str, i + 1, Len(str)), sep)

DigitChars == <<"0", "1", "2", "3", "4", "5", "6", "7", "8", "9">>

RECURSIVE UsizeToString(_)
\* usize::to_string
UsizeToString(n) ==
    IF n < 10 THEN <<DigitChars[n + 1]>>
    ELSE UsizeToString(n \div 10) \o <<DigitChars[(n % 10) + 1]>>

RECURSIVE IntAffinity(_)
\* a column declared INT stores a well-formed decimal text as an INTEGER,
\* which row.get reads as usize
IntAffinity(text) ==
    IF text = <<>> THEN 0
    ELSE IntAffinity(SubSeq(text, 1, Len(text) - 1)) * 10
         + ((CHOOSE d \in 1..10 : DigitChars[d] = text[Len(text)]) - 1)

\* strum Display: the variant's name
to_string(e) == e.variant

\* row_to_enum: String::parse through strum EnumString
row_to_enum(ty, text) == Enum(ty, text)

\* row_to_vec (database.rs 249-255)
row_to_vec(text) == Split(text, ",")

(***************************************************************************)
(* ScanDatabase (database.rs).                                             *)
(***************************************************************************)
\* ScanDatabase::new: both tables dropped and created again
ScanDatabase_new == [data_element_occurrences |-> <<>>, vulnerabilities |-> <<>>]

\* the row the INSERT of put_data_element_occurrence binds
OccurrenceRow(o) ==
    [data_element_id |-> o.data_element_id,
     data_element_name |-> o.data_element_name,
     hash |-> o.hash,
     sensitivity |-> to_string(o.sensitivity),
     language |-> to_string(o.language),
     code_segment |-> o.code_segment,
     absolute_file_path |-> o.absolute_file_path,
     relative_file_path |-> o.relative_file_path,
     line_start |-> IntAffinity(UsizeToString(o.line_start)),
     line_end |-> IntAffinity(UsizeToString(o.line_end)),
     column_start |-> IntAffinity(UsizeToString(o.column_start)),
     column_end |-> IntAffinity(UsizeToString(o.column_end)),
     url_link |-> o.url_link,
     source |-> to_string(o.source),
     tags |-> Join(o.tags, ",")]

put_data_element_occurrence(db, o) ==
    [db EXCEPT !.data_element_occurrences = Append(@, OccurrenceRow(o))]

\* the struct the closure of get_data_element_occurrences builds from a row
OccurrenceOfRow(row) ==
    [data_element_id |-> row.data_element_id,
     data_element_name |-> row.data_element_name,
     hash |-> row.hash,
     sensitivity |-> row_to_enum("Sensitivity", row.sensitivity),
     language |-> row_to_enum("Language", row.language),
     code_segment |-> row.code_segment,
     absolute_file_path |-> row.absolute_file_path,
     relative_file_path |-> row.relative_file_path,
     line_start |-> row.line_start,
     line_end |-> row.line_end,
     column_start |-> row.column_start,
     column_end |-> row.column_end,
     url_link |-> row.url_link,
     source |-> row_to_enum("Source", row.source),
     tags |-> row_to_vec(row.tags)]

get_data_element_occurrences(db) ==
    [i \in 1..Len(db.data_element_occurrences) |->
        OccurrenceOfRow(db.data_element_occurrences[i])]

\* the row the INSERT of put_vulnerability binds
VulnerabilityRow(v) ==
    [data_sink_id |-> v.data_sink_id,
     data_element_ids |-> Join(v.data_element_ids, ","),
     data_element_names |-> Join(v.data_element_names, ","),
     hash |-> v.hash,
     description |-> v.description,
     severity |-> to_string(v.severity),
     language |-> to_string(v.language),
     code_segment |-> v.code_segment,
     absolute_file_path |-> v.absolute_file_path,
     relative_file_path |-> v.relative_file_path,
     line_start |-> IntAffinity(UsizeToString(v.line_start)),
     line_end |-> IntAffinity(UsizeToString(v.line_end)),
     column_start |-> IntAffinity(UsizeToString(v.column_start)),
     column_end |-> IntAffinity(UsizeToString(v.column_end)),
     url_link |-> v.url_link,
     cwe |-> Join(v.cwe, ","),
     owasp |-> Join(v.owasp, ",")]

db_put_vulnerability(db, v) ==
    [db EXCEPT !.vulnerabilities = Append(@, VulnerabilityRow(v))]

\* the struct the closure of get_vulnerabilities builds from a row
VulnerabilityOfRow(row) ==
    [data_sink_id |-> row.data_sink_id,
     data_element_ids |-> row_to_vec(row.data_element_ids),
     data_element_names |-> row_to_vec(row.data_element_names),
     hash |-> row.hash,
     description |-> row.description,
     severity |-> row_to_enum("Severity", row.severity),
     language |-> row_to_enum("Language", row.language),
     code_segment |-> row.code_segment,
     absolute_file_path |-> row.absolute_file_path,
     relative_file_path |-> row.relative_file_path,
     line_start |-> row.line_start,
     line_end |-> row.line_end,
     column_start |-> row.column_start,
     column_end |-> row.column_end,
     url_link |-> row.url_link,
     cwe |-> row_to_vec(row.cwe),
     owasp |-> row_to_vec(row.owasp)]

get_vulnerabilities(db) ==
    [i \in 1..Len(db.vulnerabilities) |-> VulnerabilityOfRow(db.vulnerabilities[i])]

(***************************************************************************)
(* Specification SpecStore: one finding written to a fresh store and read  *)
(* back, for bounded values of its string-sequence fields.                 *)
(***************************************************************************)
StrChunks == {"a", ","}
Strings == UNION {[1..k -> StrChunks] : k \in 0..MaxStrLen}
Vecs == UNION {[1..k -> Strings] : k \in 0..MaxVecLen}

\* string-sequence fields as the catalog and the visitors produce them:
\* tags, cwe and owasp come from rule files, ids and names from elements
SampleOccurrences ==
    {[data_element_id |-> <<"ssn">>, data_element_name |-> <<"SSN">>,
      hash |-> <<"0F">>, sensitivity |-> sens,
      language |-> Enum("Language", "Python"), code_segment |-> <<"user.ssn">>,
      absolute_file_path |-> <<"/r/a.py">>, relative_file_path |-> <<"a.py">>,
      line_start |-> ln, line_end |-> ln, column_start |-> 1, column_end |-> 9,
      url_link |-> <<"file://r">>, source |-> Enum("Source", "HoundDog"),
      tags |-> tags] :
        sens \in Sensitivity, ln \in {1, 12}, tags \in Vecs}

SampleVulnerabilities ==
    {[data_sink_id |-> <<"py_log">>, data_element_ids |-> ids,
      data_element_names |-> ids, hash |-> <<"A1">>,
      description |-> <<"logging">>, severity |-> Enum("Severity", "Medium"),
      language |-> Enum("Language", "Python"), code_segment |-> <<"print(ssn)">>,
      absolute_file_path |-> <<"/r/a.py">>, relative_file_path |-> <<"a.py">>,
      line_start |-> 3, line_end |-> 3, column_start |-> 1, column_end |-> 11,
      url_link |-> <<"file://r">>, cwe |-> cwe, owasp |-> owasp] :
        ids \in {<< <<"ssn">> >>, << <<"ssn">>, <<"email">> >>},
        cwe \in Vecs, owasp \in {<<>>, << <<"A09">> >>}}

InitStore ==
    /\ pc = "put"
    /\ \/ arg \in {[kind |-> "occurrence", finding |-> o] : o \in SampleOccurrences}
       \/ arg \in {[kind |-> "vulnerability", finding |-> v] : v \in SampleVulnerabilities}
    /\ ret = None
    /\ database = ScanDatabase_new
    /\ IdleWalk
    /\ IdleScan

StorePutOccurrence ==
    /\ pc = "put"
    /\ arg.kind = "occurrence"
    /\ database' = put_data_element_occurrence(database, arg.finding)
    /\ pc' = "get"
    /\ UNCHANGED <<scanVars, walkVars, fnVars>>

StorePutVulnerability ==
    /\ pc = "put"
    /\ arg.kind = "vulnerability"
    /\ database' = db_put_vulnerability(database, arg.finding)
    /\ pc' = "get"
    /\ UNCHANGED <<scanVars, walkVars, fnVars>>

StoreGet ==
    /\ pc = "get"
    /\ ret' = IF arg.kind = "occurrence"
              THEN get_data_element_occurrences(database)
              ELSE get_vulnerabilities(database)
    /\ pc' = "done"
    /\ UNCHANGED <<scanVars, walkVars, database, arg>>

NextStore == StorePutOccurrence \/ StorePutVulnerability \/ StoreGet

SpecStore == InitStore /\ [][NextStore]_vars

\* C4: a finding written to the store and read back equals the original in
\* every field, for every value of its string-sequence fields, the empty
\* sequence included.
C4_RoundTrip == pc = "done" => ret = <<arg.finding>>

(***************************************************************************)
(* Source text and nodes of a parsed file.  The source is the sequence of  *)
(* its tokens, white space included (one token per blank or newline), and  *)
(* a node covers the tokens s..e.                                          *)
(***************************************************************************)
Node(k, p, f, s, e) == [kind |-> k, parent |-> p, field |-> f, s |-> s, e |-> e]

Some(x) == [some |-> x]
IsSome(o) == o # None

EmptyMap == [x \in {} |-> x]
MapPut(m, k, v) == [x \in (DOMAIN m) \cup {k} |-> IF x = k THEN v ELSE m[x]]

RECURSIVE SortedSeq(_)
SortedSeq(S) == IF S = {} THEN <<>> ELSE <<MinOf(S)>> \o SortedSeq(S \ {MinOf(S)})

\* node.children(..): all children, anonymous tokens included, in source order
get_children(t, n) == SortedSeq(ChildrenOf(t, n))

\* node.children_by_field_name(field, ..)
get_children_by_field(t, n, field) ==
    SortedSeq({c \in ChildrenOf(t, n) : t[c].field = field})

\* node.child_by_field_name(field): the first child with that field name
child_by_field_name(t, n, field) ==
    LET cs == {c \in ChildrenOf(t, n) : t[c].field = field}
    IN  IF cs = {} THEN None ELSE Some(MinOf(cs))

\* node.child_by_field_name(field).unwrap() on a node that has the field
get_child_by_field(t, n, field) == child_by_field_name(t, n, field).some

RECURSIVE ByteLen(_)
ByteLen(text) == IF text = <<>> THEN 0 ELSE Len(Head(text)) + ByteLen(Tail(text))

start_byte(src, node) == ByteLen(SubSeq(src, 1, node.s - 1))
end_byte(src, node) == ByteLen(SubSeq(src, 1, node.e))

\* the Point of the byte that follows the first k tokens of the source
PointAfter(src, k) ==
    LET nls == {i \in 1..k : src[i] = "\n"}
        last == IF nls = {} THEN 0 ELSE CHOOSE i \in nls : \A j \in nls : j <= i
    IN  [row |-> Cardinality(nls), column |-> ByteLen(SubSeq(src, last + 1, k))]

start_position(src, node) == PointAfter(src, node.s - 1)
end_position(src, node) == PointAfter(src, node.e)

IsWhitespace(tok) == tok \in {" ", "\n", "\t", "\r"}

RECURSIVE TrimStartMatches(_, _)
TrimStartMatches(text, set) ==
    IF text # <<>> /\ Head(text) \in set THEN TrimStartMatches(Tail(text), set) ELSE text

RECURSIVE TrimEndMatches(_, _)
TrimEndMatches(text, set) ==
    IF text # <<>> /\ text[Len(text)] \in set
    THEN TrimEndMatches(SubSeq(text, 1, Len(text) - 1), set) ELSE text

WhitespaceTokens == {" ", "\n", "\t", "\r"}

\* str::trim
Trim(text) == TrimEndMatches(TrimStartMatches(text, WhitespaceTokens), WhitespaceTokens)

(***************************************************************************)
(* Rules.  A compiled pattern is a literal: anchored (^toks$) or not.      *)
(***************************************************************************)
Regex(anchored, toks) == [anchored |-> anchored, toks |-> toks]

\* Regex::is_match
Regex_is_match(re, text) ==
    IF re.anchored THEN text = re.toks
    ELSE \E i \in 1..(Len(text) - Len(re.toks) + 1) :
            SubSeq(text, i, i + Len(re.toks) - 1) = re.toks

\* DataElement::is_match (structs.rs 97-100)
DataElement_is_match(e, text) ==
    /\ \E i \in 1..Len(e.include_patterns) : Regex_is_match(e.include_patterns[i], text)
    /\ ~\E i \in 1..Len(e.exclude_patterns) : Regex_is_match(e.exclude_patterns[i], text)

\* DataSink::is_match (structs.rs 143-152)
DataSink_is_match(sink, text) ==
    \E i \in 1..Len(sink.match_rules) :
        /\ IsSome(sink.match_rules[i].regex)
        /\ Regex_is_match(sink.match_rules[i].regex.some, text)

Python == Enum("Language", "Python")
Typescript == Enum("Language", "Typescript")

\* the catalog of data elements (HashMap<String, DataElement>)
DataElements ==
    [id \in {"ssn", "email", "nickname"} |->
        CASE id = "ssn" ->
               [id |-> "ssn", name |-> "SSN",
                include_patterns |-> <<Regex(FALSE, <<"ssn">>)>>,
                exclude_patterns |-> <<>>,
                is_enabled |-> TRUE,
                sensitivity |-> Enum("Sensitivity", "Critical"),
                source |-> Enum("Source", "HoundDog"),
                tags |-> << <<"pii">>, <<"gov">> >>]
          [] id = "email" ->
               [id |-> "email", name |-> "Email",
                include_patterns |-> <<Regex(FALSE, <<"user", "_", "email">>),
                                     Regex(FALSE, <<"contact">>)>>,
                exclude_patterns |-> <<Regex(FALSE, <<"template">>)>>,
                is_enabled |-> TRUE,
                sensitivity |-> Enum("Sensitivity", "Medium"),
                source |-> Enum("Source", "User"),
                tags |-> << <<"pii">> >>]
          [] id = "nickname" ->
               [id |-> "nickname", name |-> "Nickname",
                include_patterns |-> <<Regex(FALSE, <<"nick">>), Regex(FALSE, <<"contact">>)>>,
                exclude_patterns |-> <<>>,
                is_enabled |-> FALSE,
                sensitivity |-> Enum("Sensitivity", "Low"),
                source |-> Enum("Source", "AI"),
                tags |-> <<>>]]

DataSinkRule(id, lang, rules) ==
    [id |-> id, description |-> <<"sink ", id>>, language |-> lang, name |-> id,
     cwe |-> << <<"CWE-532">> >>, owasp |-> << <<"A09">> >>,
     match_rules |-> rules, remediation |-> <<>>]

PythonSinks ==
    [id \in {"py_log", "py_http"} |->
        IF id = "py_log"
        THEN DataSinkRule("py_log", Python,
                 <<[regex |-> None], [regex |-> Some(Regex(TRUE, <<"print">>))]>>)
        ELSE DataSinkRule("py_http", Python,
                 <<[regex |-> Some(Regex(TRUE, <<"net", ".", "send">>))]>>)]

TypescriptSinks ==
    [id \in {"ts_log"} |->
        DataSinkRule("ts_log", Typescript, <<[regex |-> Some(Regex(TRUE, <<"log">>))]>>)]

\* HashMap<Language, HashMap<String, DataSink>>: a language has an entry
\* only when some sink file names it (rules.rs 41-44)
DataSinkCatalogs ==
    {[l \in {Python, Typescript} |-> IF l = Python THEN PythonSinks ELSE TypescriptSinks],
     [l \in {Python} |-> PythonSinks]}

Repository ==
    [path |-> <<"/r">>, base_url |-> <<"file://r">>, name |-> <<"local/r">>,
     branch |-> <<"main">>, commit |-> <<"HEAD">>, git_provider |-> None]

Orderings(S) ==
    {p \in [1..Cardinality(S) -> S] : \A i, j \in 1..Cardinality(S) : p[i] = p[j] => i = j}

\* HashMap::values(): the order is fixed for one map and differs between runs
ValuesOrders(map) == Orderings(DOMAIN map)

\* iter.find(pred) over the values in the map's iteration order
FindFirst(order, map, Pred(_)) ==
    LET hits == {i \in 1..Len(order) : Pred(map[order[i]])}
    IN  IF hits = {} THEN None ELSE Some(order[MinOf(hits)])

(***************************************************************************)
(* FileScanContext (structs.rs 554-757).  The context is a record; an      *)
(* operation that takes &mut self gives the context afterwards.            *)
(***************************************************************************)
\* get_file_language (utils/file.rs 90-102)
get_file_language(extension) ==
    CASE extension = "cs" -> Some(Enum("Language", "CSharp"))
      [] extension \in {"gql", "graphql"} -> Some(Enum("Language", "GraphQL"))
      [] extension = "java" -> Some(Enum("Language", "Java"))
      [] extension \in {"js", "jsx", "ts", "tsx"} -> Some(Typescript)
      [] extension = "kt" -> Some(Enum("Language", "Kotlin"))
      [] extension = "py" -> Some(Python)
      [] extension = "rb" -> Some(Enum("Language", "Ruby"))
      [] extension = "sql" -> Some(Enum("Language", "SQL"))
      [] OTHER -> None

\* FileScanContext::new
FileScanContext_new(cfg, file) ==
    [absolute_file_path |-> cfg.repository.path \o <<"/">> \o file.path,
     relative_file_path |-> file.path,
     display_file_path |-> file.path,
     source |-> file.source,
     language |-> get_file_language(file.extension).some,
     scopes |-> <<>>,
     data_sinks_cache |-> EmptyMap,
     data_elements_cache |-> EmptyMap,
     data_element_aliases |-> EmptyMap,
     associated_data_elements |-> EmptyMap]

CodeScope_new(scope_type, scope_name) ==
    [scope_type |-> scope_type, scope_name |-> scope_name, aliases |-> EmptyMap]

get_node_text(ctx, node) == SubSeq(ctx.source, node.s, node.e)

\* get_node_name: the text of the child with field "name"
get_node_name(ctx, t, n) == get_node_text(ctx, t[get_child_by_field(t, n, "name")])

\* set_data_element_aliases: push right on the entry of left
set_data_element_aliases(ctx, left, right) ==
    [ctx EXCEPT !.data_element_aliases =
        MapPut(@, left, (IF left \in DOMAIN @ THEN @[left] ELSE <<>>) \o <<right>>)]

\* set_associated_data_elements: the declared or assigned name is associated
\* with the element id
set_associated_data_elements(ctx, left, id) ==
    [ctx EXCEPT !.associated_data_elements =
        MapPut(@, left, (IF left \in DOMAIN @ THEN @[left] ELSE <<>>) \o <<id>>)]

Push(ctx, scope) == [ctx EXCEPT !.scopes = Append(@, scope)]

enter_global_scope(ctx) == Push(ctx, CodeScope_new("Global", <<"global">>))
enter_anonymous_scope(ctx, t, n) == Push(ctx, CodeScope_new("Anonymous", get_node_text(ctx, t[n])))
enter_class_scope(ctx, t, n) == Push(ctx, CodeScope_new("Class", get_node_name(ctx, t, n)))
enter_function_scope(ctx, t, n) == Push(ctx, CodeScope_new("Function", get_node_name(ctx, t, n)))

\* Vec::pop: nothing happens on an empty stack
exit_current_scope(ctx) ==
    [ctx EXCEPT !.scopes = IF @ = <<>> THEN @ ELSE SubSeq(@, 1, Len(@) - 1)]

\* put_alias: into the top scope, nothing without a scope
put_alias(ctx, name, alias) ==
    IF ctx.scopes = <<>> THEN ctx
    ELSE [ctx EXCEPT !.scopes[Len(ctx.scopes)].aliases = MapPut(@, name, alias)]

\* name.replace(".", "_")
ReplaceDots(name) == [i \in 1..Len(name) |-> IF name[i] = "." THEN "_" ELSE name[i]]

find_data_element_not_normalized(cfg, ctx, name) ==
    IF name \in DOMAIN ctx.data_elements_cache
    THEN [ctx |-> ctx, result |-> <<Some(ctx.data_elements_cache[name])>>]
    ELSE IF name \in DOMAIN ctx.data_element_aliases
    THEN [ctx |-> ctx,
          result |-> [i \in 1..Len(ctx.data_element_aliases[name]) |->
                        IF ctx.data_element_aliases[name][i] \in DOMAIN ctx.data_elements_cache
                        THEN Some(ctx.data_elements_cache[ctx.data_element_aliases[name][i]])
                        ELSE None]]
    ELSE LET data_element ==
                 FindFirst(cfg.data_elements_values, cfg.data_elements,
                           LAMBDA e : DataElement_is_match(e, name))
         IN  IF IsSome(data_element)
             THEN [ctx |-> [ctx EXCEPT !.data_elements_cache =
                                          MapPut(@, name, data_element.some)],
                   result |-> <<data_element>>]
             ELSE [ctx |-> ctx, result |-> <<>>]

\* find_data_element (structs.rs 624-651).  The result is the Vec of
\* options; no match gives the empty result.
find_data_element(cfg, ctx, name) ==
    IF name \in DOMAIN ctx.data_elements_cache
    THEN [ctx |-> ctx, result |-> <<Some(ctx.data_elements_cache[name])>>]
    ELSE IF name \in DOMAIN ctx.data_element_aliases
    THEN [ctx |-> ctx,
          result |-> [i \in 1..Len(ctx.data_element_aliases[name]) |->
                        IF ctx.data_element_aliases[name][i] \in DOMAIN ctx.data_elements_cache
                        THEN Some(ctx.data_elements_cache[ctx.data_element_aliases[name][i]])
                        ELSE None]]
    ELSE LET normalized_name == ReplaceDots(name)
             data_element ==
                 FindFirst(cfg.data_elements_values, cfg.data_elements,
                           LAMBDA e : DataElement_is_match(e, normalized_name))
         IN  IF IsSome(data_element)
             THEN [ctx |-> [ctx EXCEPT !.data_elements_cache =
                                          MapPut(@, name, data_element.some)],
                   result |-> <<data_element>>]
             ELSE [ctx |-> ctx, result |-> <<>>]

\* the first Some of a result, for a caller that takes it as an Option
FirstSome(result) ==
    LET hits == {i \in 1..Len(result) : IsSome(result[i])}
    IN  IF hits = {} THEN None ELSE result[MinOf(hits)]

RECURSIVE ScopesFindAlias(_, _)
ScopesFindAlias(scopes, name) ==
    IF scopes = <<>> THEN None
    ELSE IF name \in DOMAIN Head(scopes).aliases
         THEN Some(Head(scopes).aliases[name])
         ELSE ScopesFindAlias(Tail(scopes), name)

RECURSIVE ScopesRevFindAlias(_, _)
\* self.scopes.iter().rev().find_map(|s| s.aliases.get(name).cloned())
ScopesRevFindAlias(scopes, name) ==
    IF scopes = <<>> THEN None
    ELSE IF name \in DOMAIN scopes[Len(scopes)].aliases
         THEN Some(scopes[Len(scopes)].aliases[name])
         ELSE ScopesRevFindAlias(SubSeq(scopes, 1, Len(scopes) - 1), name)

SinkLookup(cfg, ctx, name, original_name) ==
    IF ctx.language \notin DOMAIN cfg.data_sinks
    THEN [ctx |-> ctx, result |-> None]
    ELSE LET data_sink ==
                 FindFirst(cfg.data_sinks_values[ctx.language],
                           cfg.data_sinks[ctx.language],
                           LAMBDA sink : DataSink_is_match(sink, original_name))
         IN  IF IsSome(data_sink)
             THEN [ctx |-> [ctx EXCEPT !.data_sinks_cache = MapPut(@, name, data_sink.some)],
                   result |-> data_sink]
             ELSE [ctx |-> ctx, result |-> None]

find_data_sink_outermost_first(cfg, ctx, name) ==
    IF name \in DOMAIN ctx.data_sinks_cache
    THEN [ctx |-> ctx, result |-> Some(ctx.data_sinks_cache[name])]
    ELSE LET alias == ScopesFindAlias(ctx.scopes, name)
         IN  SinkLookup(cfg, ctx, name, IF IsSome(alias) THEN alias.some ELSE name)

\* find_data_sink (structs.rs 653-680)
find_data_sink(cfg, ctx, name) ==
    IF name \in DOMAIN ctx.data_sinks_cache
    THEN [ctx |-> ctx, result |-> Some(ctx.data_sinks_cache[name])]
    ELSE LET alias == ScopesRevFindAlias(ctx.scopes, name)
         IN  SinkLookup(cfg, ctx, name, IF IsSome(alias) THEN alias.some ELSE name)

\* get_code_line (structs.rs 716-736)
get_code_line(ctx, node) ==
    LET src == ctx.source
        before == {i \in 1..(node.s - 1) : src[i] = "\n"}
        start == IF before = {} THEN 1
                 ELSE (CHOOSE i \in before : \A j \in before : j <= i) + 1
        after == {i \in (node.e + 1)..Len(src) : src[i] = "\n"}
        end == IF after = {} THEN Len(src) ELSE MinOf(after) - 1
        trimmed == {",", ";"} \cup WhitespaceTokens
    IN  TrimEndMatches(TrimStartMatches(SubSeq(src, start, end), trimmed), trimmed)

\* str::lines: split at "\n"; a final empty line is not a line
Lines(text) ==
    LET parts == Split(text, "\n")
    IN  IF parts[Len(parts)] = <<>> THEN SubSeq(parts, 1, Len(parts) - 1) ELSE parts

LeadingWhitespace(line) == Len(line) - Len(TrimStartMatches(line, WhitespaceTokens))

OutOfRange == [panic |-> "byte index out of range"]

\* get_code_block (structs.rs 694-707): the padded text, its lines and the
\* least indent of the lines that are not blank
CodeLines(ctx, node) ==
    LET text == get_node_text(ctx, node)
        column == start_position(ctx.source, node).column
        code_block == [i \in 1..column |-> " "] \o text
        code_lines == Lines(code_block)
        indents == {LeadingWhitespace(code_lines[i]) :
                       i \in {j \in 1..Len(code_lines) : Trim(code_lines[j]) # <<>>}}
    IN  [code_lines |-> code_lines,
         min_indent_length |-> IF indents = {} THEN 0 ELSE MinOf(indents)]

\* &line[min_indent_length..] (structs.rs 711) panics on a line shorter
\* than the indent removed
get_code_block_panics(ctx, node) ==
    LET d == CodeLines(ctx, node)
    IN  \E i \in 1..Len(d.code_lines) : Len(d.code_lines[i]) < d.min_indent_length

\* get_code_block (structs.rs 694-714)
get_code_block(ctx, node) ==
    LET d == CodeLines(ctx, node)
    IN  IF get_code_block_panics(ctx, node) THEN OutOfRange
        ELSE Join([i \in 1..Len(d.code_lines) |->
                      SubSeq(d.code_lines[i], d.min_indent_length + 1,
                             Len(d.code_lines[i]))],
                  "\n")

\* calculate_md5_hash: the upper-case hex digest, kept symbolic (two digests
\* are equal exactly when the hashed strings are)
calculate_md5_hash(data) == [md5_hex_upper |-> data]

\* format!("{}|{}|{}|{}|{}", ..)
HashInput(repo_name, branch, rule_id, path, text) ==
    repo_name \o <<"|">> \o branch \o <<"|", rule_id, "|">> \o path \o <<"|">> \o text

\* get_url_link (utils/git.rs 128-151) for the provider of the repository
get_url_link(repository, path, line_start, line_end) ==
    IF repository.git_provider = None THEN repository.base_url
    ELSE repository.base_url \o <<"/blob/">> \o repository.commit \o <<"/">> \o path
         \o <<"#L">> \o UsizeToString(line_start) \o <<"-L">> \o UsizeToString(line_end)

\* DataElementOccurrence::from_node with the line of the node in the text
\* that is hashed
DataElementOccurrence_from_node_hashing_line(cfg, ctx, node, data_element) ==
    LET start_pos == start_position(ctx.source, node)
        end_pos == end_position(ctx.source, node)
    IN  [data_element_id |-> <<data_element.id>>,
         data_element_name |-> <<data_element.name>>,
         sensitivity |-> data_element.sensitivity,
         hash |-> calculate_md5_hash(HashInput(cfg.repository.name, cfg.repository.branch,
                                               data_element.id, ctx.relative_file_path,
                                               get_node_text(ctx, node)
                                                   \o UsizeToString(start_pos.row + 1))),
         language |-> ctx.language,
         code_segment |-> get_code_line(ctx, node),
         absolute_file_path |-> ctx.absolute_file_path,
         relative_file_path |-> ctx.relative_file_path,
         line_start |-> start_pos.row + 1,
         line_end |-> end_pos.row + 1,
         column_start |-> start_pos.column + 1,
         column_end |-> end_pos.column + 1,
         url_link |-> get_url_link(cfg.repository, ctx.display_file_path,
                                   start_pos.row + 1, end_pos.row + 1),
         source |-> data_element.source,
         tags |-> data_element.tags]

\* DataElementOccurrence::from_node (structs.rs 202-246)
DataElementOccurrence_from_node(cfg, ctx, node, data_element) ==
    LET start_pos == start_position(ctx.source, node)
        end_pos == end_position(ctx.source, node)
    IN  [data_element_id |-> <<data_element.id>>,
         data_element_name |-> <<data_element.name>>,
         sensitivity |-> data_element.sensitivity,
         hash |-> calculate_md5_hash(HashInput(cfg.repository.name, cfg.repository.branch,
                                               data_element.id, ctx.relative_file_path,
                                               get_node_text(ctx, node))),
         language |-> ctx.language,
         code_segment |-> get_code_line(ctx, node),
         absolute_file_path |-> ctx.absolute_file_path,
         relative_file_path |-> ctx.relative_file_path,
         line_start |-> start_pos.row + 1,
         line_end |-> end_pos.row + 1,
         column_start |-> start_pos.column + 1,
         column_end |-> end_pos.column + 1,
         url_link |-> get_url_link(cfg.repository, ctx.display_file_path,
                                   start_pos.row + 1, end_pos.row + 1),
         source |-> data_element.source,
         tags |-> data_element.tags]

\* Vulnerability::from_node (structs.rs 271-327); data_elements is the
\* non-empty list of participating elements
Vulnerability_from_node(cfg, ctx, node, data_sink, data_elements) ==
    LET start_pos == start_position(ctx.source, node)
        end_pos == end_position(ctx.source, node)
    IN  [data_sink_id |-> <<data_sink.id>>,
         data_element_ids |-> [i \in 1..Len(data_elements) |-> <<data_elements[i].id>>],
         data_element_names |-> [i \in 1..Len(data_elements) |-> <<data_elements[i].name>>],
         hash |-> calculate_md5_hash(HashInput(cfg.repository.name, cfg.repository.branch,
                                               data_sink.id, ctx.relative_file_path,
                                               Trim(get_node_text(ctx, node)))),
         description |-> data_sink.description,
         severity |-> from_node_severity(data_elements),
         language |-> ctx.language,
         code_segment |-> get_code_block(ctx, node),
         absolute_file_path |-> ctx.absolute_file_path,
         relative_file_path |-> ctx.relative_file_path,
         line_start |-> start_pos.row + 1,
         line_end |-> end_pos.row + 1,
         column_start |-> start_pos.column + 1,
         column_end |-> end_pos.column + 1,
         url_link |-> get_url_link(cfg.repository, ctx.display_file_path,
                                   start_pos.row + 1, end_pos.row + 1),
         cwe |-> data_sink.cwe,
         owasp |-> data_sink.owasp]

put_occurrence_checking_vulnerability_skips(cfg, db, occurrence) ==
    IF occurrence.hash \notin cfg.skip_vulnerabilities
    THEN put_data_element_occurrence(db, occurrence)
    ELSE db

\* put_occurrence (structs.rs 744-749)
put_occurrence(cfg, db, occurrence) ==
    IF occurrence.hash \notin cfg.skip_occurrences
    THEN put_data_element_occurrence(db, occurrence)
    ELSE db

\* put_vulnerability (structs.rs 751-756)
put_vulnerability(cfg, db, vulnerability) ==
    IF vulnerability.hash \notin cfg.skip_vulnerabilities
    THEN db_put_vulnerability(db, vulnerability)
    ELSE db

(***************************************************************************)
(* The visitors.  visit_node gives the context afterwards, the findings it *)
(* handed to put_occurrence / put_vulnerability (in order), what it        *)
(* returned, and whether it panicked (an unwrap of None, a slice out of    *)
(* range).                                                                 *)
(***************************************************************************)
Visited_(c, v, puts) ==
    [ctx |-> c, visit_children |-> v, puts |-> puts, panicked |-> FALSE]

Panicked(c) ==
    [ctx |-> c, visit_children |-> "Yes", puts |-> <<>>, panicked |-> TRUE]

Occurrence(o) == [kind |-> "occurrence", finding |-> o]
Vuln(v) == [kind |-> "vulnerability", finding |-> v]

ElementsOf(cfg, ids) == [i \in 1..Len(ids) |-> cfg.data_elements[ids[i]]]

\* the call arm without the is_empty test, the severity of an empty list
\* taken from some element of the catalog
RecordVulnerability_unguarded(cfg, c, t, n, data_sink, data_elements) ==
    IF get_code_block_panics(c, t[n]) THEN Panicked(c)
    ELSE LET some_id == CHOOSE id \in DOMAIN cfg.data_elements : TRUE
             v == Vulnerability_from_node(cfg, c, t[n],
                      cfg.data_sinks[c.language][data_sink],
                      ElementsOf(cfg, IF data_elements = <<>> THEN <<some_id>>
                                      ELSE data_elements))
         IN  Visited_(c, "Yes",
                 <<Vuln([v EXCEPT
                            !.data_element_ids =
                                [i \in 1..Len(data_elements) |-> <<data_elements[i]>>],
                            !.data_element_names =
                                [i \in 1..Len(data_elements) |->
                                    <<cfg.data_elements[data_elements[i]].name>>]])>>)

\* the call arm once the sink and the participating elements are known
RecordVulnerability(cfg, c, t, n, data_sink, data_elements) ==
    IF data_elements = <<>> THEN Visited_(c, "Yes", <<>>)
    ELSE IF get_code_block_panics(c, t[n]) THEN Panicked(c)
    ELSE Visited_(c, "Yes",
             <<Vuln(Vulnerability_from_node(cfg, c, t[n],
                        cfg.data_sinks[c.language][data_sink],
                        ElementsOf(cfg, data_elements)))>>)

RECURSIVE PyImportAliases(_, _, _)
\* import_statement (python.rs 42-54)
PyImportAliases(c, t, children) ==
    IF children = <<>> THEN c
    ELSE LET child == Head(children)
         IN  PyImportAliases(
                 IF t[child].kind = "aliased_import"
                 THEN put_alias(c, get_node_text(c, t[get_child_by_field(t, child, "alias")]),
                                get_node_text(c, t[get_child_by_field(t, child, "name")]))
                 ELSE c,
                 t, Tail(children))

RECURSIVE PyImportFromAliases_unqualified(_, _, _, _)
\* import_from_statement binding each name to the imported name alone,
\* without the module
PyImportFromAliases_unqualified(c, t, module_name, children) ==
    IF children = <<>> THEN c
    ELSE LET child == Head(children)
             next ==
               CASE t[child].kind = "dotted_name" ->
                      put_alias(c, get_node_text(c, t[child]), get_node_text(c, t[child]))
                 [] t[child].kind = "aliased_import" ->
                      put_alias(c, get_node_text(c, t[get_child_by_field(t, child, "alias")]),
                                get_node_text(c, t[get_child_by_field(t, child, "name")]))
                 [] OTHER -> c
         IN  PyImportFromAliases_unqualified(next, t, module_name, Tail(children))

RECURSIVE PyImportFromAliases(_, _, _, _)
\* import_from_statement (python.rs 56-89)
PyImportFromAliases(c, t, module_name, children) ==
    IF children = <<>> THEN c
    ELSE LET child == Head(children)
             next ==
               CASE t[child].kind = "dotted_name" ->
                      put_alias(c, get_node_text(c, t[child]),
                                module_name \o <<".">> \o get_node_text(c, t[child]))
                 [] t[child].kind = "aliased_import" ->
                      put_alias(c, get_node_text(c, t[get_child_by_field(t, child, "alias")]),
                                module_name \o <<".">>
                                \o get_node_text(c, t[get_child_by_field(t, child, "name")]))
                 [] OTHER -> c
         IN  PyImportFromAliases(next, t, module_name, Tail(children))

RECURSIVE PyCallArguments(_, _, _, _, _)
\* the loop over the arguments of a call (python.rs 107-117)
PyCallArguments(cfg, c, t, args, data_elements) ==
    IF args = <<>> THEN [ctx |-> c, data_elements |-> data_elements]
    ELSE IF t[Head(args)].kind = "identifier"
         THEN LET r == find_data_element(cfg, c, get_node_text(c, t[Head(args)]))
                  elem == FirstSome(r.result)
              IN  PyCallArguments(cfg, r.ctx, t, Tail(args),
                      IF IsSome(elem) THEN Append(data_elements, elem.some)
                      ELSE data_elements)
         ELSE PyCallArguments(cfg, c, t, Tail(args), data_elements)

\* PythonScanner::visit_node (python.rs 16-140)
PythonScanner_visit_node(cfg, c, t, n) ==
    LET kind == t[n].kind
        text == get_node_text(c, t[n])
    IN  CASE kind = "module" -> Visited_(enter_global_scope(c), "Yes", <<>>)
          [] kind = "class_definition" ->
               IF child_by_field_name(t, n, "name") = None THEN Panicked(c)
               ELSE Visited_(enter_class_scope(c, t, n), "Yes", <<>>)
          [] kind = "function_definition" ->
               IF child_by_field_name(t, n, "name") = None THEN Panicked(c)
               ELSE Visited_(enter_function_scope(c, t, n), "Yes", <<>>)
          [] kind \in {"lambda", "list_comprehension", "generator_expression"} ->
               Visited_(enter_anonymous_scope(c, t, n), "Yes", <<>>)
          [] kind = "import_statement" ->
               Visited_(PyImportAliases(c, t, get_children(t, n)), "Yes", <<>>)
          [] kind = "import_from_statement" ->
               IF child_by_field_name(t, n, "module_name") = None THEN Panicked(c)
               ELSE Visited_(PyImportFromAliases(c, t,
                                 get_node_text(c, t[get_child_by_field(t, n, "module_name")]),
                                 get_children_by_field(t, n, "name")),
                             "Yes", <<>>)
          [] kind \in {"attribute", "identifier"}
               /\ end_byte(c.source, t[n]) - start_byte(c.source, t[n]) > 1 ->
               LET r == find_data_element(cfg, c, text)
                   data_element == FirstSome(r.result)
               IN  IF IsSome(data_element)
                   THEN Visited_(r.ctx, "No",
                            <<Occurrence(DataElementOccurrence_from_node(
                                  cfg, r.ctx, t[n], cfg.data_elements[data_element.some]))>>)
                   ELSE Visited_(r.ctx, "Yes", <<>>)
          [] kind = "call" ->
               IF child_by_field_name(t, n, "function") = None THEN Panicked(c)
               ELSE LET s == find_data_sink(cfg, c,
                                 get_node_text(c, t[get_child_by_field(t, n, "function")]))
                    IN  IF ~IsSome(s.result) THEN Visited_(s.ctx, "Yes", <<>>)
                        ELSE IF child_by_field_name(t, n, "arguments") = None
                        THEN Panicked(s.ctx)
                        ELSE LET a == PyCallArguments(cfg, s.ctx, t,
                                          get_children(t, get_child_by_field(t, n, "arguments")),
                                          <<>>)
                             IN  RecordVulnerability(cfg, a.ctx, t, n, s.result.some,
                                                     a.data_elements)
          [] kind = "assignment" ->
               IF child_by_field_name(t, n, "left") = None THEN Panicked(c)
               ELSE Visited_(c, "Yes", <<>>)
          [] OTHER -> Visited_(c, "Yes", <<>>)

PythonScanner_leave_node_keeping_lambda(c, t, n) ==
    IF t[n].kind \in {"class_definition", "function_definition", "list_comprehension",
                      "generator_expression"}
    THEN exit_current_scope(c)
    ELSE c

\* PythonScanner::leave_node (python.rs 142-153)
PythonScanner_leave_node(c, t, n) ==
    IF t[n].kind \in {"class_definition", "function_definition", "list_comprehension",
                      "lambda", "generator_expression"}
    THEN exit_current_scope(c)
    ELSE c

RECURSIVE find_all_child_member_expressions(_, _)
RECURSIVE FlattenChildren(_, _)
\* find_all_child_member_expressions (typescript.rs 135-148); a
\* member_expression always has its property
find_all_child_member_expressions(t, n) ==
    <<n>> \o
    (IF t[n].kind = "member_expression"
     THEN <<get_child_by_field(t, n, "property")>>
     ELSE FlattenChildren(t, get_children(t, n)))

FlattenChildren(t, children) ==
    IF children = <<>> THEN <<>>
    ELSE find_all_child_member_expressions(t, Head(children))
         \o FlattenChildren(t, Tail(children))

RECURSIVE AssociateHits(_, _, _)
\* for each Some in a find_data_element result: set_associated_data_elements
AssociateHits(c, left, result) ==
    IF result = <<>> THEN c
    ELSE AssociateHits(
             IF IsSome(Head(result))
             THEN set_associated_data_elements(c, left, Head(result).some)
             ELSE c,
             left, Tail(result))

\* the texts of the property_identifier nodes under the value of a
\* variable_declarator (the HashSet child_names)
ChildNames(c, t, n) ==
    IF t[n].kind = "variable_declarator" /\ IsSome(child_by_field_name(t, n, "value"))
    THEN {get_node_text(c, t[m]) :
             m \in {k \in Nodes(t) :
                      /\ \E i \in DOMAIN find_all_child_member_expressions(
                                     t, get_child_by_field(t, n, "value")) :
                            find_all_child_member_expressions(
                                t, get_child_by_field(t, n, "value"))[i] = k
                      /\ t[k].kind = "property_identifier"}}
    ELSE {}

\* the orders in which the HashSet child_names may be iterated
HashSetOrders(c, t, n) == Orderings(ChildNames(c, t, n))

RECURSIVE TsDeclaratorNames(_, _, _, _)
\* the loop over child_names (typescript.rs 26-38)
TsDeclaratorNames(cfg, c, var_decl_name, child_names) ==
    IF child_names = <<>> THEN c
    ELSE LET r == find_data_element(cfg, c, Head(child_names))
         IN  TsDeclaratorNames(cfg, AssociateHits(r.ctx, var_decl_name, r.result),
                               var_decl_name, Tail(child_names))

RECURSIVE TsAssignmentChildren(_, _, _, _, _)
\* the loop over the flattened right-hand side (typescript.rs 63-78)
TsAssignmentChildren(cfg, c, t, left_node_text, children) ==
    IF children = <<>> THEN c
    ELSE LET child == Head(children)
             aliased == IF t[child].kind \in {"identifier", "property_identifier"}
                        THEN set_data_element_aliases(c, left_node_text,
                                                      get_node_text(c, t[child]))
                        ELSE c
             r == find_data_element(cfg, aliased, get_node_text(c, t[child]))
         IN  TsAssignmentChildren(cfg, AssociateHits(r.ctx, left_node_text, r.result),
                                  t, left_node_text, Tail(children))

RECURSIVE SomesOf(_)
SomesOf(result) ==
    IF result = <<>> THEN <<>>
    ELSE (IF IsSome(Head(result)) THEN <<Head(result).some>> ELSE <<>>)
         \o SomesOf(Tail(result))

\* the call arm never consulting associated_data_elements
AssociatedElements_ignored(cfg, c, arg_text) == <<>>

\* the associated ids that config.data_elements.get finds
AssociatedElements(cfg, c, arg_text) ==
    IF arg_text \in DOMAIN c.associated_data_elements
    THEN SelectSeq(c.associated_data_elements[arg_text],
                   LAMBDA id : id \in DOMAIN cfg.data_elements)
    ELSE <<>>

RECURSIVE TsCallArguments(_, _, _, _, _)
\* the loop over the flattened arguments (typescript.rs 88-115)
TsCallArguments(cfg, c, t, args, data_elements) ==
    IF args = <<>> THEN [ctx |-> c, data_elements |-> data_elements]
    ELSE IF t[Head(args)].kind \in {"identifier", "property_identifier"}
         THEN LET arg_text == get_node_text(c, t[Head(args)])
                  r == find_data_element(cfg, c, arg_text)
                  direct == data_elements \o SomesOf(r.result)
              IN  TsCallArguments(cfg, r.ctx, t, Tail(args),
                      IF direct = <<>> THEN AssociatedElements(cfg, r.ctx, arg_text)
                      ELSE direct)
         ELSE TsCallArguments(cfg, c, t, Tail(args), data_elements)

\* TypescriptScanner::visit_node (typescript.rs 13-130); child_names is the
\* HashSet of the variable_declarator arm in its iteration order
TypescriptScanner_visit_node(cfg, c, t, n, child_names) ==
    LET kind == t[n].kind
    IN  CASE kind = "variable_declarator" ->
               IF child_by_field_name(t, n, "name") = None
                  \/ child_by_field_name(t, n, "value") = None
               THEN Panicked(c)
               ELSE Visited_(TsDeclaratorNames(cfg, c, get_node_name(c, t, n), child_names),
                             "Yes", <<>>)
          [] kind \in {"identifier", "property_identifier"} ->
               LET r == find_data_element(cfg, c, get_node_text(c, t[n]))
                   data_element == FirstSome(r.result)
               IN  IF IsSome(data_element)
                   THEN Visited_(r.ctx, "No",
                            <<Occurrence(DataElementOccurrence_from_node(
                                  cfg, r.ctx, t[n], cfg.data_elements[data_element.some]))>>)
                   ELSE Visited_(r.ctx, "Yes", <<>>)
          [] kind = "assignment_expression" ->
               IF child_by_field_name(t, n, "left") = None THEN Panicked(c)
               ELSE IF child_by_field_name(t, n, "right") = None
               THEN Visited_(c, "Yes", <<>>)
               ELSE Visited_(TsAssignmentChildren(cfg, c, t,
                                 get_node_text(c, t[get_child_by_field(t, n, "left")]),
                                 find_all_child_member_expressions(
                                     t, get_child_by_field(t, n, "right"))),
                             "Yes", <<>>)
          [] kind = "call_expression" ->
               IF child_by_field_name(t, n, "function") = None THEN Panicked(c)
               ELSE LET s == find_data_sink(cfg, c,
                                 get_node_text(c, t[get_child_by_field(t, n, "function")]))
                    IN  IF ~IsSome(s.result) THEN Visited_(s.ctx, "Yes", <<>>)
                        ELSE IF child_by_field_name(t, n, "arguments") = None
                        THEN Panicked(s.ctx)
                        ELSE LET a == TsCallArguments(cfg, s.ctx, t,
                                          find_all_child_member_expressions(
                                              t, get_child_by_field(t, n, "arguments")),
                                          <<>>)
                             IN  RecordVulnerability(cfg, a.ctx, t, n, s.result.some,
                                                     a.data_elements)
          [] OTHER -> Visited_(c, "Yes", <<>>)

\* TypescriptScanner::leave_node (typescript.rs 132)
TypescriptScanner_leave_node(c, t, n) == c

(***************************************************************************)
(* The repository scanned: a small corpus of files with their syntax       *)
(* trees (nodes in pre-order, anonymous tokens included).                  *)
(***************************************************************************)
\*   from lib import send
\*   def f():
\*     from net import send
\*     send(ssn)
\*   print(nick, ssn)
a_py_source ==
    <<"from", " ", "lib", " ", "import", " ", "send", "\n", "def", " ", "f",
      "(", ")", ":", "\n", " ", " ", "from", " ", "net", " ", "import", " ",
      "send", "\n", " ", " ", "send", "(", "ssn", ")", "\n", "print", "(",
      "nick", ",", " ", "ssn", ")", "\n">>

a_py_tree ==
    <<Node("module", 0, "", 1, 39),
      Node("import_from_statement", 1, "", 1, 7),
      Node("from", 2, "", 1, 1),
      Node("dotted_name", 2, "module_name", 3, 3),
      Node("identifier", 4, "", 3, 3),
      Node("import", 2, "", 5, 5),
      Node("dotted_name", 2, "name", 7, 7),
      Node("identifier", 7, "", 7, 7),
      Node("function_definition", 1, "", 9, 31),
      Node("def", 9, "", 9, 9),
      Node("identifier", 9, "name", 11, 11),
      Node("parameters", 9, "parameters", 12, 13),
      Node("(", 12, "", 12, 12),
      Node(")", 12, "", 13, 13),
      Node(":", 9, "", 14, 14),
      Node("block", 9, "body", 18, 31),
      Node("import_from_statement", 16, "", 18, 24),
      Node("from", 17, "", 18, 18),
      Node("dotted_name", 17, "module_name", 20, 20),
      Node("identifier", 19, "", 20, 20),
      Node("import", 17, "", 22, 22),
      Node("dotted_name", 17, "name", 24, 24),
      Node("identifier", 22, "", 24, 24),
      Node("expression_statement", 16, "", 28, 31),
      Node("call", 24, "", 28, 31),
      Node("identifier", 25, "function", 28, 28),
      Node("argument_list", 25, "arguments", 29, 31),
      Node("(", 27, "", 29, 29),
      Node("identifier", 27, "", 30, 30),
      Node(")", 27, "", 31, 31),
      Node("expression_statement", 1, "", 33, 39),
      Node("call", 31, "", 33, 39),
      Node("identifier", 32, "function", 33, 33),
      Node("argument_list", 32, "arguments", 34, 39),
      Node("(", 34, "", 34, 34),
      Node("identifier", 34, "", 35, 35),
      Node(",", 34, "", 36, 36),
      Node("identifier", 34, "", 38, 38),
      Node(")", 34, "", 39, 39)>>

\*   class C:
\*     x = lambda y: user.email
\*     [c for c in contact]
b_py_source ==
    <<"class", " ", "C", ":", "\n", " ", " ", "x", " ", "=", " ", "lambda",
      " ", "y", ":", " ", "user", ".", "email", "\n", " ", " ", "[", "c",
      " ", "for", " ", "c", " ", "in", " ", "contact", "]", "\n">>

b_py_tree ==
    <<Node("module", 0, "", 1, 33),
      Node("class_definition", 1, "", 1, 33),
      Node("class", 2, "", 1, 1),
      Node("identifier", 2, "name", 3, 3),
      Node(":", 2, "", 4, 4),
      Node("block", 2, "body", 8, 33),
      Node("expression_statement", 6, "", 8, 19),
      Node("assignment", 7, "", 8, 19),
      Node("identifier", 8, "left", 8, 8),
      Node("=", 8, "", 10, 10),
      Node("lambda", 8, "right", 12, 19),
      Node("lambda", 11, "", 12, 12),
      Node("lambda_parameters", 11, "parameters", 14, 14),
      Node("identifier", 13, "", 14, 14),
      Node(":", 11, "", 15, 15),
      Node("attribute", 11, "body", 17, 19),
      Node("identifier", 16, "object", 17, 17),
      Node(".", 16, "", 18, 18),
      Node("identifier", 16, "attribute", 19, 19),
      Node("expression_statement", 6, "", 23, 33),
      Node("list_comprehension", 20, "", 23, 33),
      Node("[", 21, "", 23, 23),
      Node("identifier", 21, "body", 24, 24),
      Node("for_in_clause", 21, "", 26, 32),
      Node("for", 24, "", 26, 26),
      Node("identifier", 24, "left", 28, 28),
      Node("in", 24, "", 30, 30),
      Node("identifier", 24, "right", 32, 32),
      Node("]", 21, "", 33, 33)>>

\*   const x = user.ssn;
\*   log(x);
d_ts_source ==
    <<"const", " ", "x", " ", "=", " ", "user", ".", "ssn", ";", "\n", "log",
      "(", "x", ")", ";", "\n">>

d_ts_tree ==
    <<Node("program", 0, "", 1, 16),
      Node("lexical_declaration", 1, "", 1, 10),
      Node("const", 2, "", 1, 1),
      Node("variable_declarator", 2, "", 3, 9),
      Node("identifier", 4, "name", 3, 3),
      Node("=", 4, "", 5, 5),
      Node("member_expression", 4, "value", 7, 9),
      Node("identifier", 7, "object", 7, 7),
      Node(".", 7, "", 8, 8),
      Node("property_identifier", 7, "property", 9, 9),
      Node(";", 2, "", 10, 10),
      Node("expression_statement", 1, "", 12, 16),
      Node("call_expression", 12, "", 12, 15),
      Node("identifier", 13, "function", 12, 12),
      Node("arguments", 13, "arguments", 13, 15),
      Node("(", 15, "", 13, 13),
      Node("identifier", 15, "", 14, 14),
      Node(")", 15, "", 15, 15),
      Node(";", 12, "", 16, 16)>>

\*   y = user.ssn;
\*   z = y;
\*   log(z);
e_ts_source ==
    <<"y", " ", "=", " ", "user", ".", "ssn", ";", "\n", "z", " ", "=", " ",
      "y", ";", "\n", "log", "(", "z", ")", ";", "\n">>

e_ts_tree ==
    <<Node("program", 0, "", 1, 21),
      Node("expression_statement", 1, "", 1, 8),
      Node("assignment_expression", 2, "", 1, 7),
      Node("identifier", 3, "left", 1, 1),
      Node("=", 3, "", 3, 3),
      Node("member_expression", 3, "right", 5, 7),
      Node("identifier", 6, "object", 5, 5),
      Node(".", 6, "", 6, 6),
      Node("property_identifier", 6, "property", 7, 7),
      Node(";", 2, "", 8, 8),
      Node("expression_statement", 1, "", 10, 15),
      Node("assignment_expression", 11, "", 10, 14),
      Node("identifier", 12, "left", 10, 10),
      Node("=", 12, "", 12, 12),
      Node("identifier", 12, "right", 14, 14),
      Node(";", 11, "", 15, 15),
      Node("expression_statement", 1, "", 17, 21),
      Node("call_expression", 17, "", 17, 20),
      Node("identifier", 18, "function", 17, 17),
      Node("arguments", 18, "arguments", 18, 20),
      Node("(", 20, "", 18, 18),
      Node("identifier", 20, "", 19, 19),
      Node(")", 20, "", 20, 20),
      Node(";", 17, "", 21, 21)>>

\*   from net import send as tx
\*   send(nick)
\*   print(nick, nick)
\*   def g():
\*     tx(contact)
\*     from lib import send as tx
\*     tx(ssn)
c_py_source ==
    <<"from", " ", "net", " ", "import", " ", "send", " ", "as", " ", "tx",
      "\n", "send", "(", "nick", ")", "\n", "print", "(", "nick", ",", " ",
      "nick", ")", "\n", "def", " ", "g", "(", ")", ":", "\n", " ", " ",
      "tx", "(", "contact", ")", "\n", " ", " ", "from", " ", "lib", " ",
      "import", " ", "send", " ", "as", " ", "tx", "\n", " ", " ", "tx", "(",
      "ssn", ")", "\n">>

c_py_tree ==
    <<Node("module", 0, "", 1, 59),
      Node("import_from_statement", 1, "", 1, 11),
      Node("from", 2, "", 1, 1),
      Node("dotted_name", 2, "module_name", 3, 3),
      Node("identifier", 4, "", 3, 3),
      Node("import", 2, "", 5, 5),
      Node("aliased_import", 2, "name", 7, 11),
      Node("dotted_name", 7, "name", 7, 7),
      Node("identifier", 8, "", 7, 7),
      Node("as", 7, "", 9, 9),
      Node("identifier", 7, "alias", 11, 11),
      Node("expression_statement", 1, "", 13, 16),
      Node("call", 12, "", 13, 16),
      Node("identifier", 13, "function", 13, 13),
      Node("argument_list", 13, "arguments", 14, 16),
      Node("(", 15, "", 14, 14),
      Node("identifier", 15, "", 15, 15),
      Node(")", 15, "", 16, 16),
      Node("expression_statement", 1, "", 18, 24),
      Node("call", 19, "", 18, 24),
      Node("identifier", 20, "function", 18, 18),
      Node("argument_list", 20, "arguments", 19, 24),
      Node("(", 22, "", 19, 19),
      Node("identifier", 22, "", 20, 20),
      Node(",", 22, "", 21, 21),
      Node("identifier", 22, "", 23, 23),
      Node(")", 22, "", 24, 24),
      Node("function_definition", 1, "", 26, 59),
      Node("def", 28, "", 26, 26),
      Node("identifier", 28, "name", 28, 28),
      Node("parameters", 28, "parameters", 29, 30),
      Node("(", 31, "", 29, 29),
      Node(")", 31, "", 30, 30),
      Node(":", 28, "", 31, 31),
      Node("block", 28, "body", 35, 59),
      Node("expression_statement", 35, "", 35, 38),
      Node("call", 36, "", 35, 38),
      Node("identifier", 37, "function", 35, 35),
      Node("argument_list", 37, "arguments", 36, 38),
      Node("(", 39, "", 36, 36),
      Node("identifier", 39, "", 37, 37),
      Node(")", 39, "", 38, 38),
      Node("import_from_statement", 35, "", 42, 52),
      Node("from", 43, "", 42, 42),
      Node("dotted_name", 43, "module_name", 44, 44),
      Node("identifier", 45, "", 44, 44),
      Node("import", 43, "", 46, 46),
      Node("aliased_import", 43, "name", 48, 52),
      Node("dotted_name", 48, "name", 48, 48),
      Node("identifier", 49, "", 48, 48),
      Node("as", 48, "", 50, 50),
      Node("identifier", 48, "alias", 52, 52),
      Node("expression_statement", 35, "", 56, 59),
      Node("call", 53, "", 56, 59),
      Node("identifier", 54, "function", 56, 56),
      Node("argument_list", 54, "arguments", 57, 59),
      Node("(", 56, "", 57, 57),
      Node("identifier", 56, "", 58, 58),
      Node(")", 56, "", 59, 59)>>

\*   user.ssn
\*   print(user)
f_py_source ==
    <<"user", ".", "ssn", "\n", "print", "(", "user", ")", "\n">>

f_py_tree ==
    <<Node("module", 0, "", 1, 8),
      Node("expression_statement", 1, "", 1, 3),
      Node("attribute", 2, "", 1, 3),
      Node("identifier", 3, "object", 1, 1),
      Node(".", 3, "", 2, 2),
      Node("identifier", 3, "attribute", 3, 3),
      Node("expression_statement", 1, "", 5, 8),
      Node("call", 7, "", 5, 8),
      Node("identifier", 8, "function", 5, 5),
      Node("argument_list", 8, "arguments", 6, 8),
      Node("(", 10, "", 6, 6),
      Node("identifier", 10, "", 7, 7),
      Node(")", 10, "", 8, 8)>>

\*   let w;
p_ts_source ==
    <<"let", " ", "w", ";", "\n">>

p_ts_tree ==
    <<Node("program", 0, "", 1, 4),
      Node("lexical_declaration", 1, "", 1, 4),
      Node("let", 2, "", 1, 1),
      Node("variable_declarator", 2, "", 3, 3),
      Node("identifier", 4, "name", 3, 3),
      Node(";", 2, "", 4, 4)>>

\*   def f():
\*     from net import send
\*     send(ssn)
\*   send(ssn)
\*   print(ssn).x
g_py_source ==
    <<"def", " ", "f", "(", ")", ":", "\n", " ", " ", "from", " ", "net",
      " ", "import", " ", "send", "\n", " ", " ", "send", "(", "ssn", ")",
      "\n", "send", "(", "ssn", ")", "\n", "print", "(", "ssn", ")", ".",
      "x", "\n">>

g_py_tree ==
    <<Node("module", 0, "", 1, 35),
      Node("function_definition", 1, "", 1, 23),
      Node("def", 2, "", 1, 1),
      Node("identifier", 2, "name", 3, 3),
      Node("parameters", 2, "parameters", 4, 5),
      Node("(", 5, "", 4, 4),
      Node(")", 5, "", 5, 5),
      Node(":", 2, "", 6, 6),
      Node("block", 2, "body", 10, 23),
      Node("import_from_statement", 9, "", 10, 16),
      Node("from", 10, "", 10, 10),
      Node("dotted_name", 10, "module_name", 12, 12),
      Node("identifier", 12, "", 12, 12),
      Node("import", 10, "", 14, 14),
      Node("dotted_name", 10, "name", 16, 16),
      Node("identifier", 15, "", 16, 16),
      Node("expression_statement", 9, "", 20, 23),
      Node("call", 17, "", 20, 23),
      Node("identifier", 18, "function", 20, 20),
      Node("argument_list", 18, "arguments", 21, 23),
      Node("(", 20, "", 21, 21),
      Node("identifier", 20, "", 22, 22),
      Node(")", 20, "", 23, 23),
      Node("expression_statement", 1, "", 25, 28),
      Node("call", 24, "", 25, 28),
      Node("identifier", 25, "function", 25, 25),
      Node("argument_list", 25, "arguments", 26, 28),
      Node("(", 27, "", 26, 26),
      Node("identifier", 27, "", 27, 27),
      Node(")", 27, "", 28, 28),
      Node("expression_statement", 1, "", 30, 35),
      Node("attribute", 31, "", 30, 35),
      Node("call", 32, "object", 30, 33),
      Node("identifier", 33, "function", 30, 30),
      Node("argument_list", 33, "arguments", 31, 33),
      Node("(", 35, "", 31, 31),
      Node("identifier", 35, "", 32, 32),
      Node(")", 35, "", 33, 33),
      Node(".", 32, "", 34, 34),
      Node("identifier", 32, "attribute", 35, 35)>>

File(path, extension, source, t) ==
    [path |-> <<path>>, extension |-> extension, source |-> source, tree |-> t]

a_py == File("a.py", "py", a_py_source, a_py_tree)
b_py == File("b.py", "py", b_py_source, b_py_tree)
d_ts == File("d.ts", "ts", d_ts_source, d_ts_tree)
e_ts == File("e.ts", "ts", e_ts_source, e_ts_tree)
readme_md == File("README.md", "md", <<"docs">>, <<>>)
c_py == File("c.py", "py", c_py_source, c_py_tree)
f_py == File("f.py", "py", f_py_source, f_py_tree)
p_ts == File("p.ts", "ts", p_ts_source, p_ts_tree)
g_py == File("g.py", "py", g_py_source, g_py_tree)

\* get_files_in_dir: the listings of the repositories scanned
Listings ==
    {<<a_py, readme_md, e_ts>>, <<b_py, d_ts>>, <<a_py, d_ts>>,
     <<f_py, p_ts, d_ts>>, <<a_py, c_py>>, <<c_py, a_py>>, <<g_py>>}

\* hashes a user may have copied from an earlier report into the skip lists
HashIn(rule_id, path, text) ==
    calculate_md5_hash(HashInput(Repository.name, Repository.branch, rule_id,
                                 <<path>>, text))

SsnInAPy == HashIn("ssn", "a.py", <<"ssn">>)
NickInAPy == HashIn("nickname", "a.py", <<"nick">>)
SendInAPy == HashIn("py_http", "a.py", <<"send", "(", "ssn", ")">>)
PrintInAPy == HashIn("py_log", "a.py", <<"print", "(", "nick", ",", " ", "ssn", ")">>)

\* --skip-data-element-occurrence / --skip-vulnerability: no hash, or hashes
\* of both kinds of finding in each list
SkipLists ==
    {[skip_occurrences |-> {}, skip_vulnerabilities |-> {}],
     [skip_occurrences |-> {SsnInAPy, SendInAPy},
      skip_vulnerabilities |-> {PrintInAPy, NickInAPy}]}

\* the iteration orders of the sink maps of a catalog, one per language
SinkOrders(catalog) ==
    {o \in [DOMAIN catalog -> UNION {ValuesOrders(catalog[l]) : l \in DOMAIN catalog}] :
        \A l \in DOMAIN catalog : o[l] \in ValuesOrders(catalog[l])}

\* the ids given with --skip-data-element and --skip-data-sink
SkipRules ==
    {[skip_data_element |-> {}, skip_data_sink |-> {}],
     [skip_data_element |-> {"ssn"}, skip_data_sink |-> {"py_http"}]}

\* the removals with nothing removed
remove_data_elements_keeping_all(data_elems, skip_data_element) == data_elems

remove_data_sinks_keeping_all(data_sinks, skip_data_sink) == data_sinks

\* args.skip_data_element.iter().for_each(|id| data_elems.remove(id))
\* (main.rs 169-171)
remove_data_elements(data_elems, skip_data_element) ==
    [id \in DOMAIN data_elems \ skip_data_element |-> data_elems[id]]

\* args.skip_data_sink: map.remove(id) in the map of every language
\* (main.rs 172-176)
remove_data_sinks(data_sinks, skip_data_sink) ==
    [l \in DOMAIN data_sinks |->
        [id \in DOMAIN data_sinks[l] \ skip_data_sink |-> data_sinks[l][id]]]

\* ScanConfig::new as main.rs calls it (main.rs 177-189) on the maps after
\* the removals, with the iteration order of its maps
ScanConfig_new(data_elems, data_sinks, args, skip) ==
    {[repository |-> Repository,
      data_elements |-> data_elems,
      data_elements_values |-> eo,
      data_sinks |-> data_sinks,
      data_sinks_values |-> so,
      skip_data_elements |-> args.skip_data_element,
      skip_data_sinks |-> args.skip_data_sink,
      skip_occurrences |-> skip.skip_occurrences,
      skip_vulnerabilities |-> skip.skip_vulnerabilities] :
        eo \in ValuesOrders(data_elems),
        so \in SinkOrders(data_sinks)}

\* the configurations scan (main.rs) can hand to run_scan
ScanConfigs ==
    UNION {ScanConfig_new(remove_data_elements(DataElements, args.skip_data_element),
                          remove_data_sinks(catalog, args.skip_data_sink),
                          args, skip) :
              args \in SkipRules, catalog \in DataSinkCatalogs, skip \in SkipLists}

(***************************************************************************)
(* run_scan (scanner/mod.rs 19-36) and scan_file (base.rs 40-72).          *)
(***************************************************************************)
Ok == [ok |-> TRUE]
Err(e) == [err |-> e]

visit_node(extension, cfg, c, t, n, child_names) ==
    IF extension = "py"
    THEN PythonScanner_visit_node(cfg, c, t, n)
    ELSE TypescriptScanner_visit_node(cfg, c, t, n, child_names)

leave_node(extension, c, t, n) ==
    IF extension = "py"
    THEN PythonScanner_leave_node(c, t, n)
    ELSE TypescriptScanner_leave_node(c, t, n)

RECURSIVE LeaveAll(_, _, _, _)
LeaveAll(extension, c, t, ns) ==
    IF ns = <<>> THEN c
    ELSE LeaveAll(extension, leave_node(extension, c, t, Head(ns)), t, Tail(ns))

RECURSIVE ApplyPuts(_, _, _)
\* the puts of one visit_node call, in order
ApplyPuts(cfg, db, puts) ==
    IF puts = <<>> THEN db
    ELSE ApplyPuts(cfg,
                   IF Head(puts).kind = "occurrence"
                   THEN put_occurrence(cfg, db, Head(puts).finding)
                   ELSE put_vulnerability(cfg, db, Head(puts).finding),
                   Tail(puts))

Handed(puts, i, n) ==
    [k \in 1..Len(puts) |->
        [kind |-> puts[k].kind, finding |-> puts[k].finding, file |-> i, node |-> n]]

run_scan_stopping_at_error(result, i, n) == IF result = Ok THEN i + 1 ELSE n + 1

\* the loop of run_scan: `let _ =` drops the Result of the file and the
\* loop goes on to the next file
run_scan_next(result, i, n) == i + 1

\* a.sort_by(|a, b| key(a).cmp(&key(b))): stable
StableSortBy(seq, Key(_)) ==
    LET pos(i) ==
          Cardinality({j \in DOMAIN seq :
                          \/ Key(seq[j]) < Key(seq[i])
                          \/ Key(seq[j]) = Key(seq[i]) /\ j < i}) + 1
    IN  [p \in DOMAIN seq |-> seq[CHOOSE i \in DOMAIN seq : pos(i) = p]]

\* ScanResults::new without its two sort_by calls
ScanResults_new_unsorted(cfg, vulnerabilities, occurrences) ==
    [repository |-> cfg.repository,
     vulnerabilities |-> vulnerabilities,
     occurrences |-> occurrences]

\* ScanResults::new (structs.rs 371-389)
ScanResults_new(cfg, vulnerabilities, occurrences) ==
    [repository |-> cfg.repository,
     vulnerabilities |->
         StableSortBy(vulnerabilities,
                      LAMBDA v : Discriminant(SeverityVariants, v.severity)),
     occurrences |->
         StableSortBy(occurrences,
                      LAMBDA o : Discriminant(SensitivityVariants, o.sensitivity))]

\* scan_file keeping the caches, alias tables and scope stack of the file
\* scanned before
scan_file_context_reused(previous, cfg, file) ==
    IF previous = None THEN FileScanContext_new(cfg, file)
    ELSE [FileScanContext_new(cfg, file) EXCEPT
              !.scopes = previous.scopes,
              !.data_sinks_cache = previous.data_sinks_cache,
              !.data_elements_cache = previous.data_elements_cache,
              !.data_element_aliases = previous.data_element_aliases,
              !.associated_data_elements = previous.associated_data_elements]

\* `let mut context = FileScanContext::new(..)` in scan_file (base.rs 51):
\* every file gets a context of its own, whatever the file before left
scan_file_context(previous, cfg, file) == FileScanContext_new(cfg, file)

Init ==
    /\ pc = "files"
    /\ config \in {cfg \in ScanConfigs :
                      DOMAIN cfg.data_sinks_values = DOMAIN cfg.data_sinks}
    /\ files \in Listings
    /\ file_index = 1
    /\ database = ScanDatabase_new
    /\ context = None
    /\ results = None
    /\ handed = <<>>
    /\ outcomes = <<>>
    /\ IdleWalk
    /\ IdleFn

ScannedExtensions == {"py", "js", "jsx", "ts", "tsx"}

\* scan_file up to the loop: the file is read and parsed
ScanFileOpen ==
    /\ pc = "files"
    /\ file_index <= Len(files)
    /\ files[file_index].extension \in ScannedExtensions
    /\ context' = scan_file_context(context, config, files[file_index])
    /\ tree' = files[file_index].tree
    /\ cursor' = 1
    /\ visited_all_children' = FALSE
    /\ trace' = <<>>
    /\ verdict' = <<>>
    /\ pc' = "scan_file"
    /\ UNCHANGED <<config, files, file_index, results, handed, outcomes, database, fnVars>>

\* scan_file returns Err: fs::read fails, or parse gives None
ScanFileError ==
    /\ pc = "files"
    /\ file_index <= Len(files)
    /\ files[file_index].extension \in ScannedExtensions
    /\ \E e \in {"read", "parse"} :
          /\ outcomes' = Append(outcomes, Err(e))
          /\ file_index' = run_scan_next(Err(e), file_index, Len(files))
    /\ UNCHANGED <<pc, config, files, context, results, handed, database, walkVars, fnVars>>

\* the `_ => Ok(())` arm of run_scan
ScanOtherFile ==
    /\ pc = "files"
    /\ file_index <= Len(files)
    /\ files[file_index].extension \notin ScannedExtensions
    /\ outcomes' = Append(outcomes, Ok)
    /\ file_index' = run_scan_next(Ok, file_index, Len(files))
    /\ UNCHANGED <<pc, config, files, context, results, handed, database, walkVars, fnVars>>

\* one iteration of the loop of scan_file, first branch
ScanVisit ==
    /\ pc = "scan_file"
    /\ ~visited_all_children
    /\ \E child_names \in HashSetOrders(context, tree, cursor) :
          LET r == visit_node(files[file_index].extension, config, context, tree,
                              cursor, child_names)
              nxt == LoopAfterVisit(tree, cursor, r.visit_children)
          IN  IF r.panicked
              THEN /\ pc' = "panicked"
                   /\ UNCHANGED <<context, database, handed, walkVars>>
              ELSE /\ context' = r.ctx
                   /\ database' = ApplyPuts(config, database, r.puts)
                   /\ handed' = handed \o Handed(r.puts, file_index, cursor)
                   /\ trace' = Append(trace, Event("visit", cursor))
                   /\ verdict' = Append(verdict, [node |-> cursor, v |-> r.visit_children])
                   /\ cursor' = nxt.cursor
                   /\ visited_all_children' = nxt.visited_all_children
                   /\ UNCHANGED <<pc, tree>>
    /\ UNCHANGED <<config, files, file_index, results, outcomes, fnVars>>

\* one iteration of the loop of scan_file, second and third branch
ScanLeave ==
    /\ pc = "scan_file"
    /\ visited_all_children
    /\ LET nxt == LoopAfterLeave(tree, cursor)
       IN  /\ context' = LeaveAll(files[file_index].extension, context, tree,
                                  LoopLeaves(tree, cursor))
           /\ trace' = trace \o LeaveEvents(LoopLeaves(tree, cursor))
           /\ cursor' = nxt.cursor
           /\ visited_all_children' = nxt.visited_all_children
           /\ IF nxt.returned
              THEN /\ pc' = "files"
                   /\ outcomes' = Append(outcomes, Ok)
                   /\ file_index' = run_scan_next(Ok, file_index, Len(files))
              ELSE UNCHANGED <<pc, outcomes, file_index>>
    /\ UNCHANGED <<config, files, results, handed, database, tree, verdict, fnVars>>

\* after the loop of run_scan: the findings are read back and sorted
ScanFinish ==
    /\ pc = "files"
    /\ file_index > Len(files)
    /\ results' = ScanResults_new(config, get_vulnerabilities(database),
                                  get_data_element_occurrences(database))
    /\ pc' = "done"
    /\ UNCHANGED <<config, files, file_index, context, handed, outcomes, database,
                   walkVars, fnVars>>

Next ==
    \/ ScanFileOpen
    \/ ScanFileError
    \/ ScanOtherFile
    \/ ScanVisit
    \/ ScanLeave
    \/ ScanFinish

Spec == Init /\ [][Next]_vars

(***************************************************************************)
(* scan_file as a function: the findings one file hands to the store when  *)
(* it is scanned with a fresh context.                                     *)
(***************************************************************************)
AnyOrder(S) == CHOOSE o \in Orderings(S) : TRUE

KindAndHash(puts) ==
    [k \in 1..Len(puts) |-> [kind |-> puts[k].kind, hash |-> puts[k].finding.hash]]

RECURSIVE ScanLoop(_, _, _, _, _, _, _)
ScanLoop(extension, cfg, c, t, n, all_visited, found) ==
    IF ~all_visited
    THEN LET r == visit_node(extension, cfg, c, t, n, AnyOrder(ChildNames(c, t, n)))
             nxt == LoopAfterVisit(t, n, r.visit_children)
         IN  IF r.panicked THEN found
             ELSE ScanLoop(extension, cfg, r.ctx, t, nxt.cursor,
                           nxt.visited_all_children, found \o r.puts)
    ELSE LET nxt == LoopAfterLeave(t, n)
             left == LeaveAll(extension, c, t, LoopLeaves(t, n))
         IN  IF nxt.returned THEN found
             ELSE ScanLoop(extension, cfg, left, t, nxt.cursor,
                           nxt.visited_all_children, found)

\* the findings one file hands to the store when it is scanned on its own
ScanFile(cfg, file) ==
    ScanLoop(file.extension, cfg, FileScanContext_new(cfg, file), file.tree, 1,
             FALSE, <<>>)

ScanAlone(cfg, file) == KindAndHash(ScanFile(cfg, file))

(***************************************************************************)
(* Reading the history of a scan.                                          *)
(***************************************************************************)
HandedOf(kind) == {i \in DOMAIN handed : handed[i].kind = kind}

CountHanded(kind, h) ==
    Cardinality({i \in HandedOf(kind) : handed[i].finding.hash = h})

CountIn(findings, h) == Cardinality({i \in DOMAIN findings : findings[i].hash = h})

HandedByFile(i) ==
    LET idx == SortedSeq({k \in DOMAIN handed : handed[k].file = i})
    IN  [k \in DOMAIN idx |->
            [kind |-> handed[idx[k]].kind, hash |-> handed[idx[k]].finding.hash]]

InResults(kind, h) ==
    IF kind = "occurrence" THEN CountIn(results.occurrences, h) > 0
    ELSE CountIn(results.vulnerabilities, h) > 0

Skipped(kind, h) ==
    IF kind = "occurrence" THEN h \in config.skip_occurrences
    ELSE h \in config.skip_vulnerabilities

\* C3: after a scan, a finding handed to put_occurrence is in the returned
\* results (as often as it was handed) if and only if its hash is not in the
\* occurrence skip set, whatever the vulnerability skip set holds; and the
\* same for put_vulnerability with the vulnerability skip set.
C3_SkipSets ==
    pc = "done" =>
        /\ \A i \in HandedOf("occurrence") :
              CountIn(results.occurrences, handed[i].finding.hash) =
                  IF handed[i].finding.hash \in config.skip_occurrences THEN 0
                  ELSE CountHanded("occurrence", handed[i].finding.hash)
        /\ \A i \in HandedOf("vulnerability") :
              CountIn(results.vulnerabilities, handed[i].finding.hash) =
                  IF handed[i].finding.hash \in config.skip_vulnerabilities THEN 0
                  ELSE CountHanded("vulnerability", handed[i].finding.hash)

\* witness of C3: a finished scan that handed over an occurrence and a
\* vulnerability that the skip sets dropped, an occurrence whose hash is in
\* the vulnerability skip set and a vulnerability whose hash is in the
\* occurrence skip set, both of which are in the results
C3_Witness ==
    /\ pc = "done"
    /\ \E i \in HandedOf("occurrence") :
          /\ handed[i].finding.hash \in config.skip_occurrences
          /\ ~InResults("occurrence", handed[i].finding.hash)
    /\ \E i \in HandedOf("vulnerability") :
          /\ handed[i].finding.hash \in config.skip_vulnerabilities
          /\ ~InResults("vulnerability", handed[i].finding.hash)
    /\ \E i \in HandedOf("occurrence") :
          /\ handed[i].finding.hash \in config.skip_vulnerabilities
          /\ InResults("occurrence", handed[i].finding.hash)
    /\ \E i \in HandedOf("vulnerability") :
          /\ handed[i].finding.hash \in config.skip_occurrences
          /\ InResults("vulnerability", handed[i].finding.hash)

ScopeKinds ==
    {"class_definition", "function_definition", "lambda", "list_comprehension",
     "generator_expression"}

\* the open scope-opening nodes: visited and not yet left, outermost first
OpenScopeNodes == SortedSeq({n \in Visited \ Left : tree[n].kind \in ScopeKinds})

ScopeTypeFor(kind) ==
    CASE kind = "class_definition" -> "Class"
      [] kind = "function_definition" -> "Function"
      [] OTHER -> "Anonymous"

ScopeTypes(scopes) == [i \in DOMAIN scopes |-> scopes[i].scope_type]

ScanningPython == context # None /\ context.language = Python

\* C7: during a Python file scan, from the visit of the module root on, the
\* scope stack is the global scope followed by exactly one scope for each
\* open class / function / lambda / list comprehension / generator
\* expression ancestor, in nesting order; it is never empty, and when the
\* traversal has ended it holds exactly the global scope.
C7_ScopeStack ==
    ScanningPython =>
        /\ (pc = "scan_file" /\ 1 \in Visited) =>
              /\ context.scopes # <<>>
              /\ ScopeTypes(context.scopes) =
                     <<"Global">> \o [i \in DOMAIN OpenScopeNodes |->
                                         ScopeTypeFor(tree[OpenScopeNodes[i]].kind)]
        /\ pc \in {"files", "done"} => ScopeTypes(context.scopes) = <<"Global">>

\* witness of C7: inside the lambda of the class of b.py the stack is
\* global, class, anonymous
C7_Witness ==
    /\ pc = "scan_file"
    /\ ScanningPython
    /\ ScopeTypes(context.scopes) = <<"Global", "Class", "Anonymous">>
    /\ \E n \in Visited \ Left : tree[n].kind = "lambda"

\* the names asked about: the names of the file, and some others
ExtraNames ==
    {<<"net", ".", "send">>, <<"lib", ".", "send">>, <<"contact", "_", "template">>,
     <<"user", ".", "contact">>, <<"nickname">>}

\* the kinds of node whose text the visitors look up
NameKinds ==
    {"identifier", "property_identifier", "attribute", "member_expression", "dotted_name"}

Names ==
    {get_node_text(context, tree[n]) : n \in {k \in Nodes(tree) : tree[k].kind \in NameKinds}}
    \cup ExtraNames

BindingScopes(name) ==
    {i \in DOMAIN context.scopes : name \in DOMAIN context.scopes[i].aliases}

Innermost(S) == CHOOSE i \in S : \A j \in S : j <= i

QualifiedName(name) ==
    IF BindingScopes(name) = {} THEN name
    ELSE context.scopes[Innermost(BindingScopes(name))].aliases[name]

SinksOfLanguage == config.data_sinks[context.language]

\* C8: for a name with no cached sink, find_data_sink matches the sinks of
\* the file's language against the qualified name that the innermost scope
\* binding the name gives it, and against the name itself when no scope
\* binds it; it returns none when the language has no sinks entry.
C8_SinkResolution ==
    pc = "scan_file" =>
        \A name \in Names :
            name \notin DOMAIN context.data_sinks_cache =>
                LET found == find_data_sink(config, context, name).result
                IN  IF context.language \notin DOMAIN config.data_sinks
                    THEN found = None
                    ELSE /\ IsSome(found) <=>
                               \E id \in DOMAIN SinksOfLanguage :
                                   DataSink_is_match(SinksOfLanguage[id], QualifiedName(name))
                         /\ IsSome(found) =>
                               DataSink_is_match(SinksOfLanguage[found.some],
                                                 QualifiedName(name))

\* witness of C8: in f of a.py, after the inner import, send is bound in the
\* global scope (lib.send) and in the scope of f (net.send), is not cached,
\* and resolves to the sink of net.send
C8_Witness ==
    /\ pc = "scan_file"
    /\ ScanningPython
    /\ <<"send">> \notin DOMAIN context.data_sinks_cache
    /\ BindingScopes(<<"send">>) = {1, 2}
    /\ context.scopes[1].aliases[<<"send">>] # context.scopes[2].aliases[<<"send">>]
    /\ find_data_sink(config, context, <<"send">>).result = Some("py_http")

\* the ids in a find_data_element result
Hits(result) == {result[i].some : i \in {j \in DOMAIN result : IsSome(result[j])}}

NormalizedMatches(id, name) ==
    DataElement_is_match(config.data_elements[id], ReplaceDots(name))

AnswerIsNormalizedMatch(name) ==
    LET hits == Hits(find_data_element(config, context, name).result)
    IN  /\ hits # {} <=> \E id \in DOMAIN config.data_elements : NormalizedMatches(id, name)
        /\ \A id \in hits : NormalizedMatches(id, name)

AliasedOnly(name) ==
    /\ name \in DOMAIN context.data_element_aliases
    /\ name \notin DOMAIN context.data_elements_cache

Scanned(i) == files[i].extension \in ScannedExtensions

\* C10: when reading or parsing one file fails, run_scan still goes through
\* every remaining file, and each file that is scanned hands over exactly
\* the findings it yields when scanned alone; all of them that are not
\* skipped are in the returned results.
C10_FailureIsolated ==
    pc = "done" =>
        /\ Len(outcomes) = Len(files)
        /\ \A i \in DOMAIN files :
              IF Scanned(i) /\ outcomes[i] = Ok
              THEN /\ HandedByFile(i) = ScanAlone(config, files[i])
                   /\ \A k \in DOMAIN HandedByFile(i) :
                         \/ Skipped(HandedByFile(i)[k].kind, HandedByFile(i)[k].hash)
                         \/ InResults(HandedByFile(i)[k].kind, HandedByFile(i)[k].hash)
              ELSE HandedByFile(i) = <<>>

\* witness of C10: a finished scan in which a file failed and a later file
\* was scanned and has findings in the results
C10_Witness ==
    /\ pc = "done"
    /\ \E i, j \in DOMAIN files :
          /\ i < j
          /\ outcomes[i] \in {Err("read"), Err("parse")}
          /\ outcomes[j] = Ok
          /\ HandedByFile(j) # <<>>
          /\ \E k \in DOMAIN HandedByFile(j) :
                InResults(HandedByFile(j)[k].kind, HandedByFile(j)[k].hash)

\* C11: an invariant violation inside a visitor while one file is scanned (a
\* node without a field the visitor unwraps) does not abort the scan: when
\* it has happened, every file still gets its outcome and run_scan returns
\* the findings collected.
C11_VisitorFailureIsolated ==
    pc = "panicked" =>
        /\ Len(outcomes) = Len(files)
        /\ results # None

NonDecreasing(ranks) ==
    \A i, j \in DOMAIN ranks : i < j => ranks[i] <= ranks[j]

SeverityRanks(vulnerabilities) ==
    [i \in DOMAIN vulnerabilities |-> ClaimRank(vulnerabilities[i].severity.variant)]

SensitivityRanks(occurrences) ==
    [i \in DOMAIN occurrences |-> ClaimRank(occurrences[i].sensitivity.variant)]

Times(seq, x) == Cardinality({i \in DOMAIN seq : seq[i] = x})

Permutation(a, b) ==
    /\ Len(a) = Len(b)
    /\ \A i \in DOMAIN a : Times(a, a[i]) = Times(b, a[i])

\* C12: in the results run_scan returns, the vulnerabilities are in
\* non-decreasing severity order and the occurrences in non-decreasing
\* sensitivity order under Critical < Medium < Low, and each sequence is a
\* permutation of the findings read from the store.
C12_ResultsSorted ==
    pc = "done" =>
        /\ NonDecreasing(SeverityRanks(results.vulnerabilities))
        /\ NonDecreasing(SensitivityRanks(results.occurrences))
        /\ Permutation(results.vulnerabilities, get_vulnerabilities(database))
        /\ Permutation(results.occurrences, get_data_element_occurrences(database))

\* witness of C12: a finished scan whose store holds the vulnerabilities and
\* the occurrences in an order that is not the sorted one
C12_Witness ==
    /\ pc = "done"
    /\ ~NonDecreasing(SeverityRanks(get_vulnerabilities(database)))
    /\ ~NonDecreasing(SensitivityRanks(get_data_element_occurrences(database)))
    /\ Len(results.vulnerabilities) > 1
    /\ Len(results.occurrences) > 1

\* a second run of run_scan over the same listing in which the same files
\* fail to be read or parsed
RECURSIVE RunFiles(_, _, _, _, _)
RunFiles(cfg, fs, outs, i, db) ==
    IF i > Len(fs) THEN db
    ELSE RunFiles(cfg, fs, outs, i + 1,
                  IF outs[i] = Ok /\ fs[i].extension \in ScannedExtensions
                  THEN ApplyPuts(cfg, db, ScanFile(cfg, fs[i]))
                  ELSE db)

Rerun(cfg, fs, outs) ==
    LET db == RunFiles(cfg, fs, outs, 1, ScanDatabase_new)
    IN  ScanResults_new(cfg, get_vulnerabilities(db), get_data_element_occurrences(db))

\* the configurations of a second run: the same catalog, repository and skip
\* lists; only the iteration order of the hash maps may differ
SameConfiguration ==
    {cfg \in ScanConfigs :
        /\ DOMAIN cfg.data_sinks_values = DOMAIN cfg.data_sinks
        /\ cfg.repository = config.repository
        /\ cfg.data_elements = config.data_elements
        /\ cfg.data_sinks = config.data_sinks
        /\ cfg.skip_data_elements = config.skip_data_elements
        /\ cfg.skip_data_sinks = config.skip_data_sinks
        /\ cfg.skip_occurrences = config.skip_occurrences
        /\ cfg.skip_vulnerabilities = config.skip_vulnerabilities}

\* C13: two runs of run_scan over the same files, catalog and configuration
\* return the same vulnerability and occurrence sequences, also when a name
\* matches more than one data element or sink of the catalog.
C13_RunsAgree ==
    pc = "done" =>
        \A cfg \in SameConfiguration :
            LET second == Rerun(cfg, files, outcomes)
            IN  /\ second.vulnerabilities = results.vulnerabilities
                /\ second.occurrences = results.occurrences

SeqRange(seq) == {seq[i] : i \in DOMAIN seq}

\* the findings a file contributes when it is the only file of the scan
FindingsAlone(cfg, file) ==
    LET db == ApplyPuts(cfg, ScanDatabase_new, ScanFile(cfg, file))
    IN  [vulnerabilities |-> SeqRange(get_vulnerabilities(db)),
         occurrences |-> SeqRange(get_data_element_occurrences(db))]

ScannedOk == {i \in DOMAIN files : Scanned(i) /\ outcomes[i] = Ok}

\* C14: the set of findings run_scan returns is the union, over the files
\* that were scanned, of the findings each file yields on its own, so it
\* does not depend on the order of the files: nothing a file leaves in the
\* caches, alias tables or scope stack reaches the next file.
C14_FilesIndependent ==
    pc = "done" =>
        /\ SeqRange(results.vulnerabilities) =
               UNION {FindingsAlone(config, files[i]).vulnerabilities : i \in ScannedOk}
        /\ SeqRange(results.occurrences) =
               UNION {FindingsAlone(config, files[i]).occurrences : i \in ScannedOk}

\* witness of C14: a finished scan of two files of one language, both with
\* findings, where the first file left names in its sink cache
C14_Witness ==
    /\ pc = "done"
    /\ \E i, j \in ScannedOk :
          /\ i < j
          /\ files[i].extension = files[j].extension
          /\ FindingsAlone(config, files[i]).vulnerabilities # {}
          /\ FindingsAlone(config, files[j]).vulnerabilities # {}
          /\ FindingsAlone(config, files[i]).vulnerabilities
                 # FindingsAlone(config, files[j]).vulnerabilities

\* the text of the node a handed finding was built from
HandedText(h) ==
    LET node == files[h.file].tree[h.node]
        text == SubSeq(files[h.file].source, node.s, node.e)
    IN  IF h.kind = "vulnerability" THEN Trim(text) ELSE text

\* what the hash of a handed finding is said to be a function of
HashedFields(h) ==
    [name |-> config.repository.name,
     branch |-> config.repository.branch,
     rule |-> IF h.kind = "vulnerability" THEN h.finding.data_sink_id
              ELSE h.finding.data_element_id,
     path |-> h.finding.relative_file_path,
     text |-> HandedText(h)]

\* C15: two findings of the same kind built from equal repository name,
\* branch, rule id, relative path and node text (trimmed for a
\* vulnerability) have the same hash, whatever their line and column, the
\* elements of a vulnerability, or the state of the scan.
C15_HashOfFiveFields ==
    pc \in {"done", "panicked"} =>
        \A i, j \in DOMAIN handed :
            (/\ handed[i].kind = handed[j].kind
             /\ HashedFields(handed[i]) = HashedFields(handed[j]))
                => handed[i].finding.hash = handed[j].finding.hash

\* witness of C15: two occurrences of one element with the same text in one
\* file, on different lines, built in different states of the scan
C15_Witness ==
    /\ pc = "done"
    /\ \E i, j \in DOMAIN handed :
          /\ i < j
          /\ handed[i].kind = handed[j].kind
          /\ HashedFields(handed[i]) = HashedFields(handed[j])
          /\ handed[i].finding.line_start # handed[j].finding.line_start
          /\ handed[i].finding.column_start # handed[j].finding.column_start

\* the ids of the rules the catalog holds before anything is skipped
CatalogElementIds == DOMAIN DataElements

CatalogSinkIds == DOMAIN PythonSinks \cup DOMAIN TypescriptSinks

ElementIdsOf(v) == {v.data_element_ids[i][1] : i \in DOMAIN v.data_element_ids}

\* C16: every finding in the results of a scan names only rules of the
\* catalog the scan was given: no occurrence and no vulnerability has an
\* element id removed by --skip-data-element, no vulnerability has a sink id
\* removed by --skip-data-sink, also not a vulnerability recovered through a
\* TypeScript name-to-element association.
C16_OnlyCatalogRules ==
    pc = "done" =>
        /\ \A i \in DOMAIN results.occurrences :
              LET id == results.occurrences[i].data_element_id[1]
              IN  /\ id \in CatalogElementIds \ config.skip_data_elements
                  /\ id \in DOMAIN config.data_elements
        /\ \A i \in DOMAIN results.vulnerabilities :
              LET v == results.vulnerabilities[i]
              IN  /\ ElementIdsOf(v) \subseteq CatalogElementIds \ config.skip_data_elements
                  /\ ElementIdsOf(v) \subseteq DOMAIN config.data_elements
                  /\ v.data_sink_id[1] \in CatalogSinkIds \ config.skip_data_sinks
                  /\ v.data_sink_id[1] \in DOMAIN config.data_sinks[v.language]

\* witness of C16: a finished scan with an element and a sink skipped, of a
\* TypeScript file that declares a variable from the skipped element and
\* passes it to a sink, and of a Python file with the skipped sink, whose
\* results still hold findings of the rules that are left
C16_Witness ==
    /\ pc = "done"
    /\ config.skip_data_elements = {"ssn"}
    /\ config.skip_data_sinks = {"py_http"}
    /\ \E i, j \in ScannedOk : files[i] = d_ts /\ files[j] = a_py
    /\ Len(results.occurrences) > 0
    /\ Len(results.vulnerabilities) > 0

\* the occurrences handed to the store for node n of the file being scanned
OccurrencesAt(n) ==
    {h \in DOMAIN handed :
        /\ handed[h].kind = "occurrence"
        /\ handed[h].file = file_index
        /\ handed[h].node = n}

NodeText(n) == SubSeq(files[file_index].source, tree[n].s, tree[n].e)

\* the attribute and identifier nodes, longer than one byte, that the scan
\* of the Python file has visited and whose text matches a data element
MatchingNames ==
    {n \in {verdict[k].node : k \in DOMAIN verdict} :
        /\ tree[n].kind \in {"attribute", "identifier"}
        /\ ByteLen(NodeText(n)) > 1
        /\ \E id \in DOMAIN config.data_elements : NormalizedMatches(id, NodeText(n))}

\* C17: in a Python scan, a visited attribute or identifier node longer than
\* one byte whose text matches a data element gets exactly one occurrence,
\* and no node of its subtree gets one.
C17_OneOccurrencePerChain ==
    (pc = "scan_file" /\ ScanningPython) =>
        \A n \in MatchingNames :
            /\ Cardinality(OccurrencesAt(n)) = 1
            /\ \A d \in Descendants(tree, n) : OccurrencesAt(d) = {}

\* witness of C17: an attribute chain was visited and matched, one of the
\* identifiers below it would match on its own, and the scan has gone on
\* past the chain
C17_Witness ==
    /\ pc = "scan_file"
    /\ ScanningPython
    /\ \E n \in MatchingNames :
          /\ tree[n].kind = "attribute"
          /\ \E d \in Descendants(tree, n) :
                /\ tree[d].kind = "identifier"
                /\ ByteLen(NodeText(d)) > 1
                /\ \E id \in DOMAIN config.data_elements : NormalizedMatches(id, NodeText(d))
          /\ \E k \in DOMAIN verdict : verdict[k].node > n /\ ~IsAncestor(tree, n, verdict[k].node)

Distinct(seq) == \A i, j \in DOMAIN seq : seq[i] = seq[j] => i = j

\* C18: the element hits of a Python sink call are collected as distinct
\* elements: the data_element_ids of the vulnerability handed to the store
\* holds each element id at most once, also when several identifier
\* arguments of the call resolve to one element.
C18_DistinctElements ==
    \A h \in DOMAIN handed :
        (handed[h].kind = "vulnerability" /\ handed[h].finding.language = Python)
            => Distinct(handed[h].finding.data_element_ids)

\* the vulnerabilities handed to the store for node n of the file being scanned
VulnerabilitiesAt(n) ==
    {h \in DOMAIN handed :
        /\ handed[h].kind = "vulnerability"
        /\ handed[h].file = file_index
        /\ handed[h].node = n}

VisitedCalls ==
    {n \in {verdict[k].node : k \in DOMAIN verdict} :
        tree[n].kind \in {"call", "call_expression"}}

\* the identifiers in the arguments of call n
ArgumentNames(n) ==
    {d \in Nodes(tree) :
        /\ tree[d].kind \in {"identifier", "property_identifier"}
        /\ \E a \in ChildrenOf(tree, n) :
              tree[a].field = "arguments" /\ IsAncestor(tree, a, d)}

\* no argument of call n names an element, directly or through an
\* association or alias made earlier in the file
NoParticipant(n) ==
    \A d \in ArgumentNames(n) :
        /\ ~\E id \in DOMAIN config.data_elements : NormalizedMatches(id, NodeText(d))
        /\ NodeText(d) \notin DOMAIN context.associated_data_elements
        /\ NodeText(d) \notin DOMAIN context.data_element_aliases

\* C19: every vulnerability the Python or the TypeScript visitor hands to the
\* store has a non-empty list of participating element ids, and a sink call
\* for which no participating element is found hands over no vulnerability.
C19_VulnerabilityHasElements ==
    pc = "scan_file" =>
        /\ \A h \in DOMAIN handed :
              handed[h].kind = "vulnerability"
                  => /\ handed[h].finding.data_element_ids # <<>>
                     /\ handed[h].finding.data_element_names # <<>>
        /\ \A n \in VisitedCalls : NoParticipant(n) => VulnerabilitiesAt(n) = {}

\* witness of C19: the call of a sink with an argument that names no element
\* has been visited, in a scan that has handed over a vulnerability
C19_Witness ==
    /\ pc = "scan_file"
    /\ \E n \in VisitedCalls :
          /\ NoParticipant(n)
          /\ ArgumentNames(n) # {}
          /\ \E f \in ChildrenOf(tree, n) :
                /\ tree[f].field = "function"
                /\ NodeText(f) \in DOMAIN context.data_sinks_cache
    /\ \E h \in DOMAIN handed : handed[h].kind = "vulnerability"

\* the traversal of the file is back at the root with every node done: the
\* next step of scan_file returns
FileScanned == pc = "scan_file" /\ visited_all_children /\ cursor = 1

FieldChild(n, field) == CHOOSE f \in ChildrenOf(tree, n) : tree[f].field = field

FunctionText(c) == NodeText(FieldChild(c, "function"))

\* the node of the innermost scope around n: the nearest class, function,
\* lambda or comprehension above it, or the module
ScopeOf(n) ==
    LET scopes == {a \in Ancestors(tree, n) : tree[a].kind \in ScopeKinds \cup {"module"}}
    IN  CHOOSE a \in scopes : \A b \in scopes : b <= a

\* the imported names of the `from M import ..` statements of the file
ImportedNames ==
    {ch \in Nodes(tree) :
        /\ tree[ch].parent # 0
        /\ tree[tree[ch].parent].kind = "import_from_statement"
        /\ tree[ch].field = "name"
        /\ tree[ch].kind \in {"dotted_name", "aliased_import"}}

\* N of `from M import N`, A of `from M import N as A`
BoundName(ch) ==
    IF tree[ch].kind = "dotted_name" THEN NodeText(ch)
    ELSE NodeText(FieldChild(ch, "alias"))

\* M.N
ImportedAs(ch) ==
    NodeText(FieldChild(tree[ch].parent, "module_name")) \o <<".">>
    \o (IF tree[ch].kind = "dotted_name" THEN NodeText(ch)
        ELSE NodeText(FieldChild(ch, "name")))

\* the imports visited before call c, in its scope or a scope around it,
\* that bind its function text
Binders(c) ==
    {ch \in ImportedNames :
        /\ ch < c
        /\ ScopeOf(ch) \in Ancestors(tree, c)
        /\ BoundName(ch) = FunctionText(c)}

\* the import that binds the function text at call c: of the innermost
\* scope, the latest
Binding(c) ==
    CHOOSE ch \in Binders(c) :
        \A o \in Binders(c) :
            \/ ScopeOf(o) < ScopeOf(ch)
            \/ ScopeOf(o) = ScopeOf(ch) /\ o <= ch

PythonSinksOfConfig == config.data_sinks[Python]

SinksMatching(name) ==
    {id \in DOMAIN PythonSinksOfConfig : DataSink_is_match(PythonSinksOfConfig[id], name)}

\* an identifier argument of call c matches a data element
ArgumentHit(c) ==
    \E d \in ChildrenOf(tree, FieldChild(c, "arguments")) :
        /\ tree[d].kind = "identifier"
        /\ \E id \in DOMAIN config.data_elements : NormalizedMatches(id, NodeText(d))

\* call c was matched against the sinks under the name M.N of its import
MatchedAsImported(c) ==
    /\ VulnerabilitiesAt(c) # {}
           <=> (SinksMatching(ImportedAs(Binding(c))) # {} /\ ArgumentHit(c))
    /\ \A h \in VulnerabilitiesAt(c) :
           handed[h].finding.data_sink_id[1] \in SinksMatching(ImportedAs(Binding(c)))

\* the visited calls whose function text an import binds
ImportedCalls == {c \in VisitedCalls : tree[c].kind = "call" /\ Binders(c) # {}}

NameAt(c) == IF Binders(c) = {} THEN FunctionText(c) ELSE ImportedAs(Binding(c))

\* an earlier call of the file with the same function text was matched to a
\* sink, which put the text into the sink cache
CachedBefore(c) ==
    \E e \in VisitedCalls :
        /\ e < c
        /\ FunctionText(e) = FunctionText(c)
        /\ SinksMatching(NameAt(e)) # {}

ExitedBinders(c) ==
    {ch \in ImportedNames :
        /\ ch < c
        /\ tree[ScopeOf(ch)].kind \in ScopeKinds
        /\ ScopeOf(ch) \notin Ancestors(tree, c)
        /\ BoundName(ch) = FunctionText(c)}

\* the visited calls that use a name bound in a scope left before them
CallsAfterExit == {c \in VisitedCalls : tree[c].kind = "call" /\ ExitedBinders(c) # {}}

\* C24: in a Python scan, an alias recorded inside a class, function or
\* anonymous scope no longer influences sink resolution once the scope is
\* left: a call visited after the exit that uses the same name is matched as
\* if the alias had never been recorded, under the name the scopes still open
\* give it (read off when the traversal of the file is complete).
C24_ExitedAliasForgotten ==
    (FileScanned /\ ScanningPython) =>
        \A c \in CallsAfterExit :
            /\ VulnerabilitiesAt(c) # {} <=> (SinksMatching(NameAt(c)) # {} /\ ArgumentHit(c))
            /\ \A h \in VulnerabilitiesAt(c) :
                   handed[h].finding.data_sink_id[1] \in SinksMatching(NameAt(c))

\* the call nodes of the file being scanned, visited or not
CallNodes == {c \in Nodes(tree) : tree[c].kind = "call"}

\* C25: in a Python scan, pruning the subtree of a matched attribute or
\* identifier never hides a sink call: every call node of the file whose
\* function text resolves to a sink and that has an identifier argument
\* matching a data element has recorded a vulnerability when the traversal of
\* the file is complete, wherever the call sits in the tree.
C25_NoSinkCallHidden ==
    (FileScanned /\ ScanningPython) =>
        \A c \in CallNodes :
            (SinksMatching(NameAt(c)) # {} /\ ArgumentHit(c)) => VulnerabilitiesAt(c) # {}

ScanningTypescript == context # None /\ context.language = Typescript

\* the first element, in the iteration order of the catalog, that matches name
ElementFor(name) ==
    LET order == config.data_elements_values
        at == CHOOSE i \in DOMAIN order :
                  /\ NormalizedMatches(order[i], name)
                  /\ \A j \in 1..(i - 1) : ~NormalizedMatches(order[j], name)
    IN  order[at]

Matched(name) == \E id \in DOMAIN config.data_elements : NormalizedMatches(id, name)

\* the declarators of the file that declare `name`
DeclaratorsOf(name) ==
    {m \in Nodes(tree) :
        /\ tree[m].kind = "variable_declarator"
        /\ \E f \in ChildrenOf(tree, m) : tree[f].field = "name" /\ NodeText(f) = name}

\* the elements matched by the property identifiers in the initializer of
\* declarator m
InitializerElements(m) ==
    {ElementFor(NodeText(p)) :
        p \in {q \in Descendants(tree, m) :
                  /\ tree[q].kind = "property_identifier"
                  /\ \E v \in ChildrenOf(tree, m) :
                        tree[v].field = "value" /\ (q = v \/ IsAncestor(tree, v, q))
                  /\ Matched(NodeText(q))}}

\* the elements of the declarators of `name` visited before call c
DeclaredElements(name, c) ==
    UNION {InitializerElements(m) : m \in {d \in DeclaratorsOf(name) : d < c}}

\* no argument of call c is answered by find_data_element itself
NoDirectHit(c) ==
    \A d \in ArgumentNames(c) :
        /\ ~Matched(NodeText(d))
        /\ NodeText(d) \notin DOMAIN context.data_element_aliases

\* the sink calls of the TypeScript file that take one declared variable
\* with elements and no argument matching an element directly
CallsOfDeclared ==
    {c \in VisitedCalls :
        /\ tree[c].kind = "call_expression"
        /\ Typescript \in DOMAIN config.data_sinks
        /\ \E id \in DOMAIN config.data_sinks[Typescript] :
              DataSink_is_match(config.data_sinks[Typescript][id], FunctionText(c))
        /\ NoDirectHit(c)
        /\ Cardinality({d \in ArgumentNames(c) :
                           DeclaredElements(NodeText(d), c) # {}}) = 1}

AssignersOf(name) ==
    DeclaratorsOf(name) \cup
    {m \in Nodes(tree) :
        /\ tree[m].kind = "assignment_expression"
        /\ NodeText(FieldChild(m, "left")) = name}

\* the nodes of the right-hand side of declarator or assignment m
RightHandSide(m) ==
    {q \in Nodes(tree) :
        \E v \in ChildrenOf(tree, m) :
            /\ tree[v].field \in {"value", "right"}
            /\ (q = v \/ IsAncestor(tree, v, q))}

\* the elements that a text in the right-hand side of a declarator or
\* assignment of `name` matches
DirectElements(name) ==
    {id \in DOMAIN config.data_elements :
        \E m \in AssignersOf(name) :
            \E q \in RightHandSide(m) : NormalizedMatches(id, NodeText(q))}

\* C26: in a TypeScript scan, a name is associated with element E only when
\* text matching E appears directly in the right-hand side of a declarator or
\* assignment of that name (one hop); a name assigned from a variable that is
\* itself only associated with E is not associated with E.
C26_OneHopAssociation ==
    (FileScanned /\ ScanningTypescript) =>
        \A name \in DOMAIN context.associated_data_elements :
            \A i \in DOMAIN context.associated_data_elements[name] :
                context.associated_data_elements[name][i] \in DirectElements(name)

\* no two findings of the sequence carry the same hash
HashesDistinct(findings) ==
    \A i, j \in DOMAIN findings : findings[i].hash = findings[j].hash => i = j

\* C27: no two occurrences in the results of a scan carry the same hash, and
\* no two vulnerabilities do: one hash identifies one finding, so a token
\* repeated in a file for the same element yields one occurrence.
C27_OneFindingPerHash ==
    pc = "done" =>
        /\ HashesDistinct(results.occurrences)
        /\ HashesDistinct(results.vulnerabilities)

\* the elements of the catalog whose is_enabled flag is false
DisabledElements == {id \in DOMAIN DataElements : ~DataElements[id].is_enabled}

\* C30: a data element whose is_enabled flag is false produces no occurrence
\* and takes part in no vulnerability during a scan.
C30_DisabledElementSilent ==
    \A h \in DOMAIN handed :
        /\ handed[h].kind = "occurrence"
               => handed[h].finding.data_element_id[1] \notin DisabledElements
        /\ handed[h].kind = "vulnerability"
               => ElementIdsOf(handed[h].finding) \cap DisabledElements = {}

(***************************************************************************)
(* Specification SpecCodeBlock: get_code_block applied to every node of    *)
(* every source of up to MaxSourceLen bytes over a letter, the space and   *)
(* the newline; a node starts and ends on a letter.                        *)
(***************************************************************************)
SourceBytes == {"x", " ", "\n"}

Sources == UNION {[1..k -> SourceBytes] : k \in 1..MaxSourceLen}

NodesOfSource(src) ==
    {[s |-> s, e |-> e] : s \in DOMAIN src, e \in DOMAIN src} \cap
    {r \in [s : DOMAIN src, e : DOMAIN src] :
        r.s <= r.e /\ src[r.s] = "x" /\ src[r.e] = "x"}

InitCodeBlock ==
    /\ pc = "call"
    /\ arg \in {[source |-> src, node |-> node] :
                   src \in Sources, node \in UNION {NodesOfSource(x) : x \in Sources}}
    /\ arg.node \in NodesOfSource(arg.source)
    /\ ret = None
    /\ IdleWalk
    /\ IdleStore
    /\ IdleScan

ApplyCodeBlock ==
    /\ pc = "call"
    /\ ret' = get_code_block([source |-> arg.source], arg.node)
    /\ pc' = IF get_code_block_panics([source |-> arg.source], arg.node)
             THEN "panicked" ELSE "done"
    /\ UNCHANGED <<scanVars, walkVars, database, arg>>

NextCodeBlock == ApplyCodeBlock

SpecCodeBlock == InitCodeBlock /\ [][NextCodeBlock]_vars

\* the lines of a text, a last line without newline included
LinesOf(text) ==
    LET ends == {i \in DOMAIN text : text[i] = "\n"} \cup {Len(text) + 1}
        firsts == {1} \cup {i + 1 : i \in {j \in DOMAIN text : text[j] = "\n"}}
        starts == SortedSeq({f \in firsts : f <= Len(text)})
    IN  [k \in DOMAIN starts |->
            SubSeq(text, starts[k], MinOf({e \in ends : e >= starts[k]}) - 1)]

LeadingSpaces(line) ==
    Cardinality({i \in DOMAIN line : \A j \in 1..i : line[j] \in WhitespaceTokens})

ArgText == SubSeq(arg.source, arg.node.s, arg.node.e)

\* C22: for every node, whatever its start column and the lengths and
\* indentation of the lines of its text, get_code_block returns a text with
\* as many lines as the node text, none of them with more leading
\* whitespace than the corresponding line of the node text.
C22_CodeBlockLines ==
    /\ pc # "panicked"
    /\ pc = "done" =>
           /\ Len(LinesOf(ret)) = Len(LinesOf(ArgText))
           /\ \A i \in DOMAIN LinesOf(ret) :
                  LeadingSpaces(LinesOf(ret)[i]) <= LeadingSpaces(LinesOf(ArgText)[i])

(***************************************************************************)
(* parse_git_remote_url (utils/git.rs 11-56).  A remote is a sequence of   *)
(* chunks: a scheme with its "://", "git@", a user "u@", the host "h",     *)
(* ":", a port, "/", a path segment "org" and the suffix ".git".           *)
(***************************************************************************)
SchemeChunks == {"file://", "http://", "https://", "ssh://"}

SchemeOf(chunk) ==
    CASE chunk = "file://" -> "file" [] chunk = "http://" -> "http"
      [] chunk = "https://" -> "https" [] chunk = "ssh://" -> "ssh"

DefaultPort(scheme) ==
    CASE scheme = "http" -> Some("80") [] scheme = "https" -> Some("443")
      [] OTHER -> None

\* Url::parse of scheme://[user@]host[:port]path, with Url::scheme, domain,
\* port (none for the default port of the scheme) and path ("/" for the
\* empty path of http and https)
Url_parse(remote_url) ==
    LET scheme == SchemeOf(Head(remote_url))
        rest == Tail(remote_url)
        after_user == IF rest # <<>> /\ Head(rest) \in {"u@", "git@"} THEN Tail(rest) ELSE rest
        domain == Head(after_user)
        after_host == Tail(after_user)
        has_port == after_host # <<>> /\ Head(after_host) = ":"
        port == IF has_port THEN Some(after_host[2]) ELSE None
        path == IF has_port THEN SubSeq(after_host, 3, Len(after_host)) ELSE after_host
    IN  [scheme |-> scheme,
         domain |-> domain,
         port |-> IF port = DefaultPort(scheme) THEN None ELSE port,
         path |-> IF path = <<>> /\ scheme \in {"http", "https"} THEN <<"/">> ELSE path]

RepoName(path) ==
    TrimEndMatches(TrimEndMatches(TrimStartMatches(path, {"/"}), {"/"}), {".git"})

parse_git_remote_url(remote_url) ==
    IF Head(remote_url) = "file://"
    THEN LET url == TrimEndMatches(TrimEndMatches(remote_url, {"/"}), {".git"})
         IN  [url |-> url, repo_name |-> TrimStartMatches(url, {"file://"})]
    ELSE IF \E i \in DOMAIN remote_url : remote_url[i] \in SchemeChunks
    THEN LET parsed == Url_parse(remote_url)
             scheme == IF parsed.scheme = "ssh" THEN "https" ELSE parsed.scheme
             repo_name == RepoName(parsed.path)
         IN  [url |-> <<scheme, "://", parsed.domain>>
                      \o (IF IsSome(parsed.port) THEN <<":", parsed.port.some>> ELSE <<>>)
                      \o <<"/">> \o repo_name,
              repo_name |-> repo_name]
    ELSE IF Head(remote_url) = "git@"
    THEN LET url_parts == Split(TrimStartMatches(remote_url, {"git@"}), ":")
         IN  IF Len(url_parts) # 2
             THEN Err("Failed to parse Git remote URL")
             ELSE [url |-> <<"https", "://">> \o url_parts[1] \o <<"/">>
                           \o RepoName(url_parts[2]),
                   repo_name |-> RepoName(url_parts[2])]
    ELSE Err("Unsupported Git remote URL scheme")

(***************************************************************************)
(* Specification SpecGitUrl: parse_git_remote_url applied to every remote  *)
(* of a supported form with a path of up to MaxPathLen chunks.             *)
(***************************************************************************)
\* paths: "/"-separated, with a segment, e.g. /org, /org.git/, /org/.git
RemotePaths ==
    {path \in UNION {[1..k -> {"/", "org", ".git"}] : k \in 1..MaxPathLen} :
        /\ path[1] = "/"
        /\ \E i \in DOMAIN path : path[i] = "org"
        /\ \A i \in 1..(Len(path) - 1) :
              /\ ~(path[i] = "/" /\ path[i + 1] = "/")
              /\ ~(path[i] = "org" /\ path[i + 1] = "org")
              /\ ~(path[i] = ".git" /\ path[i + 1] # "/")}

RemoteUsers == {<<>>, <<"u@">>}

RemotePorts == {<<>>, <<":", "8000">>, <<":", "443">>}

Remotes ==
    {<<"file://">> \o path : path \in RemotePaths}
    \cup {<<scheme>> \o user \o <<"h">> \o port \o path :
             scheme \in {"http://", "https://", "ssh://"}, user \in RemoteUsers,
             port \in RemotePorts, path \in RemotePaths}
    \cup {<<"git@", "h", ":">> \o Tail(path) : path \in RemotePaths}

InitGitUrl ==
    /\ pc = "call"
    /\ arg \in Remotes
    /\ ret = None
    /\ IdleWalk
    /\ IdleStore
    /\ IdleScan

ApplyGitUrl ==
    /\ pc = "call"
    /\ ret' = parse_git_remote_url(arg)
    /\ pc' = "done"
    /\ UNCHANGED <<scanVars, walkVars, database, arg>>

NextGitUrl == ApplyGitUrl

SpecGitUrl == InitGitUrl /\ [][NextGitUrl]_vars

EndsIn(text, chunk) == text # <<>> /\ text[Len(text)] = chunk

\* the port written in the remote, if any
WrittenPort == {arg[i + 1] : i \in {j \in DOMAIN arg : arg[j] = ":" /\ arg[1] # "git@"}}

\* C23: for every remote of a supported form, parse_git_remote_url returns
\* a normalized URL and a repository name that end neither in "/" nor in
\* ".git"; ssh:// and git@ remotes are rewritten to https://, the user is
\* dropped and a port written in the remote is kept.
C23_NormalizedRemote ==
    pc = "done" =>
        /\ DOMAIN ret = {"url", "repo_name"}
        /\ ~EndsIn(ret.url, "/") /\ ~EndsIn(ret.url, ".git")
        /\ ~EndsIn(ret.repo_name, "/") /\ ~EndsIn(ret.repo_name, ".git")
        /\ arg[1] \in {"ssh://", "git@"} => SubSeq(ret.url, 1, 2) = <<"https", "://">>
        /\ \A i \in DOMAIN ret.url : ret.url[i] \notin {"u@", "git@"}
        /\ \A port \in WrittenPort :
              \E i \in DOMAIN ret.url : ret.url[i] = ":" /\ ret.url[i + 1] = port

(***************************************************************************)
(* Specification SpecTwoScans: two run_scan calls at the same time on one  *)
(* machine.  Both open the file hounddog.db of the temporary directory     *)
(* (scanner/mod.rs 44-46); SQLite runs the statements of the two           *)
(* connections one at a time, so a step is one statement: the batch of     *)
(* ScanDatabase::new, one INSERT, or one SELECT.  database is the content  *)
(* of the file, arg[p] the state of scan p, ret[p] what it returns.        *)
(***************************************************************************)
Scans == {1, 2}

\* the listings of the two repositories scanned
TwoScanListings == {<<f_py, p_ts>>, <<b_py, d_ts>>, <<e_ts>>}

TwoScanConfigs ==
    {cfg \in ScanConfigs :
        /\ DOMAIN cfg.data_sinks_values = DOMAIN cfg.data_sinks
        /\ cfg.skip_data_elements = {}
        /\ cfg.skip_occurrences = {}
        /\ cfg.data_elements_values = AnyOrder(DOMAIN cfg.data_elements)
        /\ \A l \in DOMAIN cfg.data_sinks :
               cfg.data_sinks_values[l] = AnyOrder(DOMAIN cfg.data_sinks[l])}

RECURSIVE ScanPuts(_, _)
\* the findings the loop of run_scan hands to the store, file after file
ScanPuts(cfg, fs) ==
    IF fs = <<>> THEN <<>>
    ELSE (IF Head(fs).extension \in ScannedExtensions
          THEN ScanFile(cfg, Head(fs)) ELSE <<>>)
         \o ScanPuts(cfg, Tail(fs))

InitTwoScans ==
    /\ pc = [p \in Scans |-> "init"]
    /\ \E cfg \in TwoScanConfigs :
          \E fs \in [Scans -> TwoScanListings] :
              arg = [p \in Scans |->
                        [config |-> cfg, files |-> fs[p],
                         puts |-> ScanPuts(cfg, fs[p]), next |-> 1,
                         vulnerabilities |-> <<>>]]
    /\ ret = [p \in Scans |-> None]
    /\ database = None
    /\ IdleWalk
    /\ IdleScan

\* let database = initialize_database(): the tables are dropped and created
InitializeDatabase(p) ==
    /\ pc[p] = "init"
    /\ database' = ScanDatabase_new
    /\ pc' = [pc EXCEPT ![p] = "scan"]
    /\ UNCHANGED <<arg, ret, walkVars, scanVars>>

\* the next put_occurrence or put_vulnerability of the loop over the files
ScanPut(p) ==
    /\ pc[p] = "scan"
    /\ arg[p].next <= Len(arg[p].puts)
    /\ database' = ApplyPuts(arg[p].config, database, <<arg[p].puts[arg[p].next]>>)
    /\ arg' = [arg EXCEPT ![p].next = @ + 1]
    /\ UNCHANGED <<pc, ret, walkVars, scanVars>>

\* let vulnerabilities = database.get_vulnerabilities()?
ReadVulnerabilities(p) ==
    /\ pc[p] = "scan"
    /\ arg[p].next > Len(arg[p].puts)
    /\ arg' = [arg EXCEPT ![p].vulnerabilities = get_vulnerabilities(database)]
    /\ pc' = [pc EXCEPT ![p] = "read"]
    /\ UNCHANGED <<database, ret, walkVars, scanVars>>

\* let occurrences = database.get_data_element_occurrences()?; Ok(ScanResults::new(..))
ReadOccurrences(p) ==
    /\ pc[p] = "read"
    /\ ret' = [ret EXCEPT ![p] =
                  ScanResults_new(arg[p].config, arg[p].vulnerabilities,
                                  get_data_element_occurrences(database))]
    /\ pc' = [pc EXCEPT ![p] = "done"]
    /\ UNCHANGED <<database, arg, walkVars, scanVars>>

NextTwoScans ==
    \E p \in Scans :
        \/ InitializeDatabase(p)
        \/ ScanPut(p)
        \/ ReadVulnerabilities(p)
        \/ ReadOccurrences(p)

SpecTwoScans == InitTwoScans /\ [][NextTwoScans]_vars

\* what scan p returns when it runs alone
AloneResults(p) ==
    Rerun(arg[p].config, arg[p].files, [i \in DOMAIN arg[p].files |-> Ok])

\* C28: two scans running at the same time on one machine do not interfere
\* through the findings store: each returns exactly the findings of its own
\* scan, none lost and none taken from the other scan, whatever the
\* interleaving of their store initialisation, writes and final reads.
C28_ScansDoNotInterfere ==
    \A p \in Scans : pc[p] = "done" => ret[p] = AloneResults(p)

(***************************************************************************)
(* Specification SpecWalkFair: the walk of SpecWalk, run as the code runs  *)
(* it.  scan_file is one sequential loop and visit_node and leave_node     *)
(* return, so an iteration that can be taken is taken: weak fairness of    *)
(* the loop body.                                                          *)
(***************************************************************************)
SpecWalkFair == SpecWalk /\ WF_vars(NextWalk)

\* the moves of the cursor so far: the calls of goto_first_child,
\* goto_next_sibling and goto_parent that took it to another node
CursorMoves ==
    Cardinality({i \in 1..(Len(trace) - 1) : trace[i].node # trace[i + 1].node})
    + (IF trace # <<>> /\ cursor # trace[Len(trace)].node THEN 1 ELSE 0)

\* scan_file has called leave on the root and returned Ok
WalkReturned ==
    /\ pc = "returned"
    /\ trace # <<>>
    /\ trace[Len(trace)] = Event("leave", 1)

\* C29: for every finite syntax tree and every sequence of visit verdicts
\* (Yes or No) the walk of scan_file terminates: it eventually calls leave on
\* the root and returns Ok, and the cursor never makes more than two moves
\* per edge of the tree.
C29_WalkTerminates ==
    /\ <>WalkReturned
    /\ [](CursorMoves <= 2 * (Len(tree) - 1))

\* witness of C29: the walk of a tree of MaxNodes nodes has returned after
\* verdicts Yes and No and two moves of the cursor per edge
C29_Witness ==
    /\ WalkReturned
    /\ Len(tree) = MaxNodes
    /\ \E i \in DOMAIN verdict : verdict[i].v = "No"
    /\ \E i \in DOMAIN verdict : verdict[i].v = "Yes" /\ verdict[i].node # 1
    /\ CursorMoves = 2 * (Len(tree) - 1)

====
